---- MODULE Spec2Model ----
(***************************************************************************)
(* Model of the Turing machine simulator (Simulator/tm.py and friends).    *)
(*                                                                         *)
(* Encoding of Python values:                                              *)
(*   - states and symbols are strings; the integers 0, 1, 2, 3 that the    *)
(*     test of tm.py uses as symbols and states are written "0", "1", ...  *)
(*   - the tape attribute is a record [set, list]: set = FALSE is None     *)
(*   - None as a state or a symbol (unset attributes of the builder,       *)
(*     inv_state of _checkData) is written Unset; "ab" is a text of two    *)
(*     characters, every other symbol has one, "" has none                 *)
(*   - a line or a text given to the parser is the sequence of its         *)
(*     characters; a state or symbol the parser reads is the string of     *)
(*     its characters, in quotes ("'1'") when the plain string is the      *)
(*     spelling of an integer                                              *)
(*   - max_steps = None is written None (-1); negative bounds are not      *)
(*     among the inputs                                                    *)
(*   - the head is the 0-based Python index, so the cell under the head    *)
(*     is tape.list[head + 1]                                              *)
(***************************************************************************)
EXTENDS Integers, Sequences, FiniteSets, TLC

\* TuringMachine.MOVE_RIGHT, MOVE_LEFT, NON_MOVEMENT, HEAD_MOVEMENTS
MOVE_RIGHT == 1
MOVE_LEFT == 2
NON_MOVEMENT == 3
HEAD_MOVEMENTS == {MOVE_LEFT, MOVE_RIGHT, NON_MOVEMENT}

\* max_steps=None
None == -1

\* Bounds of the general specification
MaxWordLen == 1
MaxTape == 4
MaxCount == 3
MaxBound == 2

\* Bounds of the scenario specification (test of tm.py)
ScenTape == 7
ScenCount == 23

VARIABLES
    tm,               \* the immutable data of the machine (self._states ... self._blank)
    tape,             \* self._tape
    head,             \* self._head
    cur_state,        \* self._cur_state
    nexecuted_steps,  \* self._nexecuted_steps
    observers,        \* self._observers
    notes,            \* the observer notifications delivered by the last action
    pc,               \* "idle", or "run" while the loop of run() is executing
    call,             \* the call in progress or the last finished call
    builder,          \* the attributes of a TuringMachineBuilder
    bcall             \* the last call of a builder method or of the constructor

vars == <<tm, tape, head, cur_state, nexecuted_steps, observers, notes, pc, call,
          builder, bcall>>

----------------------------------------------------------------------------
\* TuringMachine.__init__: the data of a machine
TuringMachine(states, in_alphabet, tape_alphabet, trans_function, istate, fstates, hstate, blank) ==
    [states |-> states, in_alphabet |-> in_alphabet,
     tape_alphabet |-> tape_alphabet, trans_function |-> trans_function,
     istate |-> istate, fstates |-> fstates, hstate |-> hstate,
     blank |-> blank]

\* None as the value of a state or of a symbol
Unset == "<None>"

\* The integers among the values: "0" is the integer 0, "ab" is a text
IntValues == {"0", "1", "2", "3", "5", "7", "9"}

\* The truth value Python gives a state or a symbol in "if inv_state:":
\* None, the integer 0 and the empty text are false
Truthy(v) == v \notin {Unset, "0", ""}

\* TuringMachine._checkData: inv_state after the two tests of transition k
inv_state(m, k) ==
    IF m.trans_function[k][1] \notin m.states THEN m.trans_function[k][1]
    ELSE IF k[1] \notin m.states THEN k[1]
    ELSE Unset

\* TuringMachine._checkData: inv_sym after the two tests of transition k
inv_sym(m, k) ==
    IF m.trans_function[k][2] \notin m.tape_alphabet THEN m.trans_function[k][2]
    ELSE IF k[2] \notin m.tape_alphabet THEN k[2]
    ELSE Unset

\* TuringMachine._checkData: the exception the body of the loop raises for
\* transition k, "none" when it raises none.  The transitions of the inputs
\* all have the format (state, symbol) : (nstate, nsymbol, movement).
checkTransition(m, k) ==
    IF Truthy(inv_state(m, k)) THEN "Invalid state"
    ELSE IF Truthy(inv_sym(m, k)) THEN "Invalid symbol"
    ELSE IF m.trans_function[k][3] \notin HEAD_MOVEMENTS THEN "Invalid movement"
    ELSE "none"

\* TuringMachine._checkData: the exceptions it can raise for the data m, the
\* empty set when it raises none.  The loop visits the transitions in the
\* order of the dictionary, so it raises for any one of the transitions
\* that fail.
checkData(m) ==
    IF ~(m.in_alphabet \subseteq m.tape_alphabet)
        THEN {"Input alphabet is not subset of tape alphabet"}
    ELSE IF m.blank \notin m.tape_alphabet
        THEN {"Blank symbol is not into the tape alphabet"}
    ELSE IF m.istate \notin m.states
        THEN {"Initial state is not a valid state"}
    ELSE IF ~(m.fstates \subseteq m.states)
        THEN {"Final states are not a subset of states"}
    ELSE {checkTransition(m, k) : k \in DOMAIN m.trans_function} \ {"none"}

\* The outcomes of TuringMachine(...) for the data m: "none" or an exception
construct_raises(m) == IF checkData(m) = {} THEN {"none"} ELSE checkData(m)

\* No machine has been constructed
NoTrans == [k \in {} |-> <<>>]
NoMachine == TuringMachine({}, {}, {}, NoTrans, Unset, {}, Unset, Unset)

\* The binary incrementer of the test of tm.py
IncrementerTrans ==
    (<<"1", "0">> :> <<"2", "1", MOVE_RIGHT>>) @@
    (<<"1", "1">> :> <<"2", "0", MOVE_RIGHT>>) @@
    (<<"2", "0">> :> <<"1", "0", NON_MOVEMENT>>) @@
    (<<"2", "1">> :> <<"3", "1", MOVE_RIGHT>>) @@
    (<<"3", "0">> :> <<"HALT", "0", NON_MOVEMENT>>) @@
    (<<"3", "1">> :> <<"HALT", "1", NON_MOVEMENT>>) @@
    (<<"3", "#">> :> <<"HALT", "#", NON_MOVEMENT>>)

Incrementer ==
    TuringMachine({"1", "2", "3", "HALT"}, {"0", "1"}, {"0", "1", "#"},
                  IncrementerTrans, "1", {"2"}, "HALT", "#")

\* A second input machine.  It moves left past the start of the tape
\* ("a" on 0), loops without moving ("b" on 1), grows the tape to the left
\* for ever ("c" on blank), halts ("b" on 0), and has no transition for
\* ("b", blank), where it is in a final state, nor for ("c", 0), where it is
\* not.
WalkerTrans ==
    (<<"a", "0">> :> <<"a", "1", MOVE_LEFT>>) @@
    (<<"a", "1">> :> <<"b", "1", MOVE_RIGHT>>) @@
    (<<"a", "#">> :> <<"c", "#", MOVE_RIGHT>>) @@
    (<<"b", "1">> :> <<"b", "1", NON_MOVEMENT>>) @@
    (<<"b", "0">> :> <<"H", "0", NON_MOVEMENT>>) @@
    (<<"c", "1">> :> <<"a", "1", NON_MOVEMENT>>) @@
    (<<"c", "#">> :> <<"c", "#", MOVE_LEFT>>)

Walker ==
    TuringMachine({"a", "b", "c", "H"}, {"0", "1"}, {"0", "1", "#"},
                  WalkerTrans, "a", {"b", "H"}, "H", "#")

\* The second machine, constructed with its halt state as initial state
Stopped ==
    TuringMachine({"a", "b", "c", "H"}, {"0", "1"}, {"0", "1", "#"},
                  WalkerTrans, "H", {"b", "H"}, "H", "#")

\* The machines of the general specification; the incrementer has the
\* scenario specification
Machines == {Walker}

\* Symbols of the words a caller passes
InputSymbols == {"0", "1"}

\* Words with the symbol 3, which is in no tape alphabet (test of tm.py)
BadWords == {<<"3">>, <<"1", "3">>}

RECURSIVE WordsUpTo(_)
WordsUpTo(n) ==
    IF n = 0 THEN {<<>>}
    ELSE LET shorter == WordsUpTo(n - 1)
         IN  shorter \cup {Append(w, s) : w \in {v \in shorter : Len(v) = n - 1},
                                          s \in InputSymbols}

\* Longer words: on <<1, 0>> the second machine halts after two steps
LongWords == {<<"1", "0">>, <<"0", "1">>}

Words == WordsUpTo(MaxWordLen) \cup LongWords \cup BadWords
HeadPositions == (0 - 1) .. (MaxWordLen + 1)
StepBounds == {None} \cup (0 .. MaxBound)
ObserverIds == {"o1", "o2"}

----------------------------------------------------------------------------
\* Queries

\* TuringMachine.isAtHaltState
isAtHaltState == cur_state = tm.hstate

\* TuringMachine.isAtFinalState
isAtFinalState == cur_state \in tm.fstates

\* TuringMachine.isTapeSet
isTapeSet == tape.set

NoTape == [set |-> FALSE, list |-> <<>>]
ListTape(l) == [set |-> TRUE, list |-> l]

----------------------------------------------------------------------------
\* TuringMachine.step

\* A configuration: the tape, the head and the current state of a machine
Config(t, h, s) == [set |-> t.set, list |-> t.list, head |-> h, state |-> s]

\* The configuration of the machine
config == Config(tape, head, cur_state)

\* cur = (self._cur_state, self._tape[self._head])
cur(c) == <<c.state, c.list[c.head + 1]>>

\* Mutant of StepRaises: the tape is looked at before the halt state
StepRaises_tapeFirst(c) ==
    IF ~c.set THEN "UnsetTapeException"
    ELSE IF c.state = tm.hstate THEN "HaltStateException"
    ELSE IF c.head >= Len(c.list) THEN "IndexError"
    ELSE IF cur(c) \notin DOMAIN tm.trans_function THEN "UnknownTransitionException"
    ELSE "none"

\* The exception step() raises in configuration c, "none" when it succeeds
StepRaises(c) ==
    IF c.state = tm.hstate THEN "HaltStateException"
    ELSE IF ~c.set THEN "UnsetTapeException"
    ELSE IF c.head >= Len(c.list) THEN "IndexError"
    ELSE IF cur(c) \notin DOMAIN tm.trans_function THEN "UnknownTransitionException"
    ELSE "none"

\* state, sym, movement = self._trans_function[cur]
trans(c) == tm.trans_function[cur(c)]

\* self._tape[self._head] = sym
step_written(c) == [c.list EXCEPT ![c.head + 1] = trans(c)[2]]

\* Mutant of step_head: the head follows the cell it was on when the tape
\* grows at its left end
step_head_followsCell(c) ==
    IF trans(c)[3] = MOVE_LEFT THEN (IF c.head = 0 THEN 1 ELSE c.head - 1)
    ELSE IF trans(c)[3] = MOVE_RIGHT THEN c.head + 1
    ELSE c.head

\* Mutant of step_list: the tape does not grow at its right end
step_list_noAppend(c) ==
    IF trans(c)[3] = MOVE_LEFT /\ c.head = 0
        THEN <<tm.blank>> \o step_written(c)
    ELSE step_written(c)

\* Mutant of step_list: the tape does not grow at its left end, the head
\* stays on the cell it has written
step_list_noInsert(c) ==
    IF trans(c)[3] = MOVE_RIGHT /\ c.head + 1 = Len(c.list)
        THEN Append(step_written(c), tm.blank)
    ELSE step_written(c)

\* The list after the movement of the head
step_list(c) ==
    IF trans(c)[3] = MOVE_LEFT /\ c.head = 0
        THEN <<tm.blank>> \o step_written(c)
    ELSE IF trans(c)[3] = MOVE_RIGHT /\ c.head + 1 = Len(c.list)
        THEN Append(step_written(c), tm.blank)
    ELSE step_written(c)

\* The head after the movement
step_head(c) ==
    IF trans(c)[3] = MOVE_LEFT THEN (IF c.head = 0 THEN 0 ELSE c.head - 1)
    ELSE IF trans(c)[3] = MOVE_RIGHT THEN c.head + 1
    ELSE c.head

\* self._cur_state = state
step_state(c) == trans(c)[1]

\* getSymbolAt(pos) in configuration c: the blank symbol outside the list.
\* "pos < 0 or pos >= len(self._tape)" looks at the tape only when pos is
\* not negative, and len() of the unset tape raises TypeError: the outcome
\* is then the name of the exception
getSymbolAt(c, pos) ==
    IF pos < 0 THEN tm.blank
    ELSE IF ~c.set THEN "TypeError"
    ELSE IF pos >= Len(c.list) THEN tm.blank
    ELSE c.list[pos + 1]

\* The configuration after a successful step() in configuration c
step_config(c) ==
    [set |-> TRUE, list |-> step_list(c), head |-> step_head(c),
     state |-> step_state(c)]

\* Mutant of step_count: only the steps of run() are counted
step_count_inRunOnly == IF pc = "run" THEN nexecuted_steps + 1 ELSE nexecuted_steps

\* self._nexecuted_steps += 1
step_count == nexecuted_steps + 1

Note(o, ev, args) == [obs |-> o, ev |-> ev, args |-> args]

\* for obs in self._observers: obs.onStepStart(cur[0], cur[1])
step_start_notes ==
    [k \in 1 .. Len(observers) |->
        Note(observers[k], "onStepStart", <<cur(config)[1], cur(config)[2]>>)]

\* for obs in self._observers: obs.onStepEnd(...); if moved: obs.onHeadMoved(...)
step_end_notes ==
    LET tr == trans(config)
        end(o) == Note(o, "onStepEnd", <<tr[1], tr[2], tr[3]>>)
        moved(o) == Note(o, "onHeadMoved", <<step_head(config), head>>)
    IN  IF step_head(config) /= head
            THEN [k \in 1 .. 2 * Len(observers) |->
                    IF k % 2 = 1 THEN end(observers[(k + 1) \div 2])
                                 ELSE moved(observers[k \div 2])]
            ELSE [k \in 1 .. Len(observers) |-> end(observers[k])]

\* The notifications of one call of step()
step_notes ==
    IF StepRaises(config) = "none" THEN step_start_notes \o step_end_notes
    ELSE IF StepRaises(config) = "UnknownTransitionException" THEN step_start_notes
    ELSE <<>>

\* Mutant of step: the step is counted before the transition is looked up
step_countsFailure ==
    IF StepRaises(config) = "none"
        THEN /\ tape' = ListTape(step_list(config))
             /\ head' = step_head(config)
             /\ cur_state' = step_state(config)
             /\ nexecuted_steps' = step_count
             /\ notes' = step_notes
        ELSE /\ UNCHANGED <<tape, head, cur_state>>
             /\ nexecuted_steps' =
                    IF StepRaises(config) = "UnknownTransitionException"
                        THEN step_count ELSE nexecuted_steps
             /\ notes' = step_notes

\* The effect of one call of step() on the machine
step ==
    IF StepRaises(config) = "none"
        THEN /\ tape' = ListTape(step_list(config))
             /\ head' = step_head(config)
             /\ cur_state' = step_state(config)
             /\ nexecuted_steps' = step_count
             /\ notes' = step_notes
        ELSE /\ UNCHANGED <<tape, head, cur_state, nexecuted_steps>>
             /\ notes' = step_notes

\* The model stops a step that would pass its bounds
StepWithin(maxTape, maxCount) ==
    StepRaises(config) = "none" =>
        (Len(step_list(config)) <= maxTape /\ nexecuted_steps < maxCount)

----------------------------------------------------------------------------
\* TuringMachine.setTape

\* Mutant of setTape_raises: only the first symbol of the tape is looked at
setTape_raises_firstOnly(t) ==
    IF t /= <<>> /\ t[1] \notin tm.tape_alphabet
        THEN "InvalidSymbolException" ELSE "none"

\* for s in tape: if s not in self._tape_alphabet: raise InvalidSymbolException
setTape_raises(t) ==
    IF \E k \in 1 .. Len(t) : t[k] \notin tm.tape_alphabet
        THEN "InvalidSymbolException" ELSE "none"

blanks(n) == [k \in 1 .. n |-> tm.blank]

setTape_list(t, head_pos) ==
    IF head_pos < 0 THEN blanks(0 - head_pos) \o t
    ELSE IF head_pos >= Len(t)
        THEN (IF t = <<>> THEN <<tm.blank>> ELSE t) \o blanks(head_pos - Len(t))
    ELSE t

setTape_head(t, head_pos) == IF head_pos < 0 THEN 0 ELSE head_pos

\* Mutant of setTape_notes: the observers are told the head of the machine
setTape_notes_normalized(head_pos) ==
    [k \in 1 .. Len(observers) |->
        Note(observers[k], "onTapeChanged", <<IF head_pos < 0 THEN 0 ELSE head_pos>>)]

\* for obs in self._observers: obs.onTapeChanged(head_pos)
setTape_notes(head_pos) ==
    [k \in 1 .. Len(observers) |-> Note(observers[k], "onTapeChanged", <<head_pos>>)]

----------------------------------------------------------------------------
\* TuringMachineBuilder

\* TuringMachineBuilder.__init__ and clean: the attributes of an empty builder
NewBuilder ==
    [states |-> {}, in_alphabet |-> {}, trans_function |-> NoTrans,
     istate |-> Unset, fstates |-> {}, blank |-> Unset, haltstate |-> Unset]

hasInitialState == builder.istate /= Unset
hasBlankSymbol == builder.blank /= Unset
hasHaltState == builder.haltstate /= Unset

\* len(symbol) of a text: the number of its characters; a text of one digit
\* is written between quotes, which are not characters of it
TextLen(v) == IF \E d \in IntValues : v = "'" \o d \o "'" THEN 1 ELSE Len(v)

\* hasattr(symbol, 'len'): a text has the method __len__ and no attribute
\* named len, and an integer has neither
hasattr_len(v) == FALSE

\* The exception addTransition raises, "none" when it registers the transition
addTransition_raises(symbol, new_symbol, movement) ==
    IF movement \notin HEAD_MOVEMENTS THEN "Invalid movement"
    ELSE IF \/ hasattr_len(symbol) /\ TextLen(symbol) > 1
            \/ hasattr_len(new_symbol) /\ TextLen(new_symbol) > 1
        THEN "Symbol length > 1"
    ELSE "none"

\* The builder after addTransition has registered a transition
addTransition_builder(state, symbol, new_state, new_symbol, movement) ==
    [builder EXCEPT
        !.states = @ \cup {state, new_state},
        !.in_alphabet = @ \cup ({symbol, new_symbol} \ {builder.blank}),
        !.trans_function = (<<state, symbol>> :> <<new_state, new_symbol, movement>>) @@ @]

\* The builder after addFinalState(state)
addFinalState_builder(state) ==
    [builder EXCEPT !.states = @ \cup {state}, !.fstates = @ \cup {state}]

\* The builder after setInitialState(state)
setInitialState_builder(state) ==
    [builder EXCEPT !.states = @ \cup {state}, !.istate = state]

\* The exception setBlankSymbol raises: "not blank_sym" is true of the empty
\* text and of the integer 0, and len() of another integer is a TypeError
setBlankSymbol_raises(blank_sym) ==
    IF ~Truthy(blank_sym) THEN "Symbol must be one char length"
    ELSE IF blank_sym \in IntValues THEN "TypeError"
    ELSE IF TextLen(blank_sym) > 1 THEN "Symbol must be one char length"
    ELSE "none"

\* Mutant of old_remains: only the source states of the transitions are
\* looked at
old_remains_sourceOnly ==
    \E k \in DOMAIN builder.trans_function : k[1] = builder.haltstate

\* setHaltState: does the previous halt state appear in some transition?
old_remains ==
    \E k \in DOMAIN builder.trans_function :
        k[1] = builder.haltstate \/ builder.trans_function[k][1] = builder.haltstate

\* setHaltState: self._states.remove() of a state that is not there
setHaltState_raises ==
    IF hasHaltState /\ ~old_remains /\ builder.haltstate \notin builder.states
        THEN "KeyError" ELSE "none"

\* The builder after setHaltState(haltstate)
setHaltState_builder(haltstate) ==
    [builder EXCEPT
        !.states = (IF hasHaltState /\ ~old_remains
                        THEN @ \ {builder.haltstate} ELSE @) \cup {haltstate},
        !.haltstate = haltstate]

\* The exception of create() itself, "none" when it calls the constructor
create_raises ==
    IF ~hasInitialState THEN "It is necessary to specify an initial state"
    ELSE IF ~hasBlankSymbol THEN "It is necessary to specify the blank symbol"
    ELSE IF ~hasHaltState THEN "It is necessary to specify the halt state"
    ELSE "none"

\* Mutant of create_args: the blank symbol is not added to the tape alphabet
create_args_noBlank ==
    TuringMachine(builder.states, builder.in_alphabet, builder.in_alphabet,
                  builder.trans_function, builder.istate, builder.fstates,
                  builder.haltstate, builder.blank)

\* The arguments create() passes to the constructor
create_args ==
    TuringMachine(builder.states, builder.in_alphabet,
                  builder.in_alphabet \cup {builder.blank},
                  builder.trans_function, builder.istate, builder.fstates,
                  builder.haltstate, builder.blank)

\* The record of a call of a builder method or of the constructor: args are
\* the arguments of the constructor, trans those of addTransition or of
\* setHaltState; lines are the lines a call of the parser works on,
\* line the number of them it has looked at, lineno the line number in the
\* message of its exception (the message is 'Line <lineno>, <exc>') and pre
\* the builder when parseString was called
NoBCall ==
    [op |-> "none", exc |-> "none", args |-> NoMachine, trans |-> <<>>,
     lines |-> <<>>, line |-> 0, lineno |-> 0, pre |-> NewBuilder]

BCall(op, exc) == [NoBCall EXCEPT !.op = op, !.exc = exc]

----------------------------------------------------------------------------
\* TuringMachineParser: the regular expressions.  A text is a sequence of
\* characters; an expression is a sequence of items, each a class of
\* characters with the least and the greatest number of repetitions and
\* the number of the group it fills (0 for none).

WordChars ==
    {"a", "b", "c", "d", "e", "f", "g", "h", "i", "j", "k", "l", "m",
     "n", "o", "p", "q", "r", "s", "t", "u", "v", "w", "x", "y", "z",
     "A", "B", "C", "D", "E", "F", "G", "H", "I", "J", "K", "L", "M",
     "N", "O", "P", "Q", "R", "S", "T", "U", "V", "W", "X", "Y", "Z",
     "0", "1", "2", "3", "4", "5", "6", "7", "8", "9", "_"}

\* \s of a str pattern, [ \t\n\r\f\v]: the last one is the vertical tab,
\* written here as the character itself
SpaceChars == {" ", "\t", "\n", "\r", "\f", ""}

\* One item: chars in cls (not in cls when neg), between min and max times
Item(cls, neg, min, many, grp) ==
    [kind |-> "class", cls |-> cls, neg |-> neg, min |-> min, many |-> many, grp |-> grp]

\* $
EndItem == [kind |-> "end", cls |-> {}, neg |-> FALSE, min |-> 0, many |-> FALSE, grp |-> 0]

\* A text that stands for itself, as BLANK or ->
Lit(t) == [k \in 1 .. Len(t) |-> Item({t[k]}, FALSE, 1, FALSE, 0)]

\* \s*, [ ]*, [ ]+ and [\s]+
WsStar == <<Item(SpaceChars, FALSE, 0, TRUE, 0)>>
SpStar == <<Item({" "}, FALSE, 0, TRUE, 0)>>
SpPlus == <<Item({" "}, FALSE, 1, TRUE, 0)>>
WsPlus == <<Item(SpaceChars, FALSE, 1, TRUE, 0)>>

\* (?P<name>\w+), (?P<name>\w), (?P<name>.) and (?P<name>[<>_]) as group g
Word(g) == <<Item(WordChars, FALSE, 1, TRUE, g)>>
WordChar(g) == <<Item(WordChars, FALSE, 1, FALSE, g)>>
AnyChar(g) == <<Item({"\n"}, TRUE, 1, FALSE, g)>>
MoveChar(g) == <<Item({"<", ">", "_"}, FALSE, 1, FALSE, g)>>

\* TuringMachineParser.__init__: the compiled expressions
comment_line_re == SpStar \o Lit(<<"%">>) \o WsStar
blank_symbol_re ==
    WsStar \o Lit(<<"B", "L", "A", "N", "K">>) \o WsPlus \o AnyChar(1) \o WsStar \o <<EndItem>>
halt_state_re ==
    SpStar \o Lit(<<"H", "A", "L", "T">>) \o SpPlus \o Word(1) \o WsStar \o <<EndItem>>
final_state_re ==
    SpStar \o Lit(<<"F", "I", "N", "A", "L">>) \o SpPlus \o Word(1) \o WsStar \o <<EndItem>>
inital_state_re ==
    SpStar \o Lit(<<"I", "N", "I", "T", "I", "A", "L">>) \o SpPlus \o WordChar(1) \o WsStar \o <<EndItem>>
transition_re ==
    WsStar \o Word(1) \o WsStar \o Lit(<<",">>) \o WsStar \o AnyChar(2) \o WsStar
    \o Lit(<<"-", ">">>) \o WsStar \o Word(3) \o WsStar \o Lit(<<",">>) \o WsStar
    \o AnyChar(4) \o WsStar \o Lit(<<",">>) \o WsStar \o MoveChar(5) \o WsStar \o <<EndItem>>

\* The number of characters of s from index i on that item it takes
RECURSIVE re_run(_, _, _)
re_run(it, s, i) ==
    IF i <= Len(s) /\ ((s[i] \in it.cls) /= it.neg) THEN 1 + re_run(it, s, i + 1) ELSE 0

NoMatch == [ok |-> FALSE, group |-> <<>>]

\* re.match: the items of p from the k-th on are matched against s from
\* index i on; an item takes as many characters as it can and gives them
\* back one by one while the rest does not match
RECURSIVE re_match(_, _, _, _, _)
RECURSIVE re_try(_, _, _, _, _, _)
re_match(p, k, s, i, groups) ==
    IF k > Len(p) THEN [ok |-> TRUE, group |-> groups]
    ELSE IF p[k].kind = "end"
        THEN (IF i = Len(s) + 1 \/ (i = Len(s) /\ s[i] = "\n")
                THEN re_match(p, k + 1, s, i, groups) ELSE NoMatch)
    ELSE re_try(p, k, s, i, groups,
                IF p[k].many THEN re_run(p[k], s, i)
                ELSE IF re_run(p[k], s, i) > 0 THEN 1 ELSE 0)

re_try(p, k, s, i, groups, n) ==
    IF n < p[k].min THEN NoMatch
    ELSE LET rest == re_match(p, k + 1, s, i + n,
                        IF p[k].grp = 0 THEN groups
                        ELSE [groups EXCEPT ![p[k].grp] = SubSeq(s, i, i + n - 1)])
         IN  IF rest.ok THEN rest ELSE re_try(p, k, s, i, groups, n - 1)

\* pattern.match(data)
match(p, data) == re_match(p, 1, data, 1, <<<<>>, <<>>, <<>>, <<>>, <<>>>>)

\* The text of a sequence of characters as a value: a Python str.  The
\* values "0", "1", ... are integers, so a text of digits that would be
\* one of them is written in quotes
RECURSIVE Join(_)
Join(t) == IF t = <<>> THEN "" ELSE Head(t) \o Join(Tail(t))

Text(t) == IF Join(t) \in IntValues THEN "'" \o Join(t) \o "'" ELSE Join(t)

----------------------------------------------------------------------------
\* TuringMachineParser: parseLine and parseString

\* The index of the first line break of t from index i on, Len(t) + 1 if none
RECURSIVE line_end(_, _)
line_end(t, i) ==
    IF i > Len(t) \/ t[i] \in {"\n", "\r"} THEN i ELSE line_end(t, i + 1)

\* string_data.splitlines(): the lines without their line breaks
RECURSIVE splitlines(_)
splitlines(t) ==
    IF t = <<>> THEN <<>>
    ELSE LET n == line_end(t, 1)
             brk == IF n < Len(t) /\ t[n] = "\r" /\ t[n + 1] = "\n" THEN n + 1 ELSE n
         IN  <<SubSeq(t, 1, n - 1)>> \o splitlines(SubSeq(t, brk + 1, Len(t)))

\* parseLine: the first of the expressions, in the order in which it tries
\* them, that matches the line
parseLine_kind(data) ==
    IF match(transition_re, data).ok THEN "transition"
    ELSE IF match(comment_line_re, data).ok THEN "comment"
    ELSE IF match(final_state_re, data).ok THEN "final"
    ELSE IF match(inital_state_re, data).ok THEN "initial"
    ELSE IF match(blank_symbol_re, data).ok THEN "blank"
    ELSE IF match(halt_state_re, data).ok THEN "halt"
    ELSE "none"

\* Mutant of parse_move: '<' and '>' are taken for each other
parse_move_swapped(move_sym) ==
    IF move_sym = "<" THEN MOVE_RIGHT
    ELSE IF move_sym = ">" THEN MOVE_LEFT
    ELSE NON_MOVEMENT

\* _parseTransition: the movement of a movement character
parse_move(move_sym) ==
    IF move_sym = "<" THEN MOVE_LEFT
    ELSE IF move_sym = ">" THEN MOVE_RIGHT
    ELSE NON_MOVEMENT

\* _parseTransition: the arguments it passes to addTransition
parse_transition(data) ==
    LET mt == match(transition_re, data).group
    IN  <<Text(mt[1]), Text(mt[2]), Text(mt[3]), Text(mt[4]), parse_move(Join(mt[5]))>>

\* The state of a FINAL, INITIAL or HALT line, the symbol of a BLANK line
parse_state(p, data) == Text(match(p, data).group[1])

\* The message of the exception parseLine(data) raises, "none" when it
\* returns
parseLine_raises(data) ==
    LET kind == parseLine_kind(data)
    IN  IF kind = "transition"
            THEN addTransition_raises(parse_transition(data)[2], parse_transition(data)[4],
                                      parse_transition(data)[5])
        ELSE IF kind = "initial" /\ hasInitialState
            THEN "Initial state can only be defined once"
        ELSE IF kind = "blank"
            THEN (IF hasBlankSymbol THEN "Blank symbol can only be defined once"
                  ELSE setBlankSymbol_raises(parse_state(blank_symbol_re, data)))
        ELSE IF kind = "halt"
            THEN (IF hasHaltState THEN "Halt state can only be defined once"
                  ELSE setHaltState_raises)
        ELSE IF kind = "none" THEN "Unrecognized pattern"
        ELSE "none"

\* The builder after parseLine(data)
parseLine_builder(data) ==
    LET kind == parseLine_kind(data)
        t == parse_transition(data)
    IN  IF parseLine_raises(data) /= "none" THEN builder
        ELSE IF kind = "transition" THEN addTransition_builder(t[1], t[2], t[3], t[4], t[5])
        ELSE IF kind = "final" THEN addFinalState_builder(parse_state(final_state_re, data))
        ELSE IF kind = "initial" THEN setInitialState_builder(parse_state(inital_state_re, data))
        ELSE IF kind = "blank" THEN [builder EXCEPT !.blank = parse_state(blank_symbol_re, data)]
        ELSE IF kind = "halt" THEN setHaltState_builder(parse_state(halt_state_re, data))
        ELSE builder

\* Mutant of parse_lineno: the lines without data are not counted
parse_lineno_dataOnly(parse_data, line) ==
    Cardinality({j \in 1 .. line + 1 : parse_data[j] /= <<>>})

\* _parse: the number in the message, line being the index enumerate() gives
parse_lineno(parse_data, line) == line + 1

----------------------------------------------------------------------------
\* The record of a call.  old_tape, old_state, old_head are the locals of
\* isWordAccepted; pre_* and done are history: the machine when the call was
\* made and the successful steps of the call.
NoCall ==
    [op |-> "none", word |-> <<>>, head_pos |-> 0, max_steps |-> None, i |-> 0,
     old_tape |-> NoTape, old_state |-> "", old_head |-> 0,
     pre_tape |-> NoTape, pre_state |-> "", pre_head |-> 0, pre_count |-> 0,
     done |-> 0, end_cond |-> (0 - 1), end_state |-> "", accepted |-> "",
     exc |-> "none"]

Call(op, exc) == [NoCall EXCEPT !.op = op, !.exc = exc]

InitOf(machines) ==
    /\ tm \in machines
    /\ tape = NoTape
    /\ head = 0
    /\ cur_state = tm.istate
    /\ nexecuted_steps = 0
    /\ observers = <<>>
    /\ notes = <<>>
    /\ pc = "idle"
    /\ call = NoCall
    /\ builder = NewBuilder
    /\ bcall = NoBCall

\* A caller calls step()
Step(maxTape, maxCount) ==
    /\ pc = "idle"
    /\ StepWithin(maxTape, maxCount)
    /\ step
    /\ call' = Call("step", StepRaises(config))
    /\ UNCHANGED <<builder, bcall, tm, observers, pc>>

\* setTape(t, head_pos)
SetTape(t, head_pos) ==
    /\ pc = "idle"
    /\ IF setTape_raises(t) = "none"
        THEN /\ tape' = ListTape(setTape_list(t, head_pos))
             /\ head' = setTape_head(t, head_pos)
             /\ notes' = setTape_notes(head_pos)
        ELSE /\ UNCHANGED <<tape, head>>
             /\ notes' = <<>>
    /\ call' = [Call("setTape", setTape_raises(t)) EXCEPT !.word = t, !.head_pos = head_pos]
    /\ UNCHANGED <<builder, bcall, tm, cur_state, nexecuted_steps, observers, pc>>

\* setAtInitialState()
SetAtInitialState ==
    /\ pc = "idle"
    /\ cur_state' = tm.istate
    /\ notes' = <<>>
    /\ call' = Call("setAtInitialState", "none")
    /\ UNCHANGED <<builder, bcall, tm, tape, head, nexecuted_steps, observers, pc>>

\* resetExecutedStepsCounter()
ResetExecutedStepsCounter ==
    /\ pc = "idle"
    /\ nexecuted_steps' = 0
    /\ notes' = <<>>
    /\ call' = Call("resetExecutedStepsCounter", "none")
    /\ UNCHANGED <<builder, bcall, tm, tape, head, cur_state, observers, pc>>

\* attachObserver(o), for an observer that has the four methods
AttachObserver(o) ==
    /\ pc = "idle"
    /\ observers' = IF \E k \in 1 .. Len(observers) : observers[k] = o
                        THEN observers ELSE Append(observers, o)
    /\ notes' = <<>>
    /\ call' = Call("attachObserver", "none")
    /\ UNCHANGED <<builder, bcall, tm, tape, head, cur_state, nexecuted_steps, pc>>

\* detachObserver(o)
DetachObserver(o) ==
    /\ pc = "idle"
    /\ observers' = SelectSeq(observers, LAMBDA x : x /= o)
    /\ notes' = <<>>
    /\ call' = Call("detachObserver", "none")
    /\ UNCHANGED <<builder, bcall, tm, tape, head, cur_state, nexecuted_steps, pc>>

----------------------------------------------------------------------------
\* TuringMachine.run and TuringMachine.isWordAccepted

\* if max_steps:
bounded(max_steps) == max_steps /= None /\ max_steps /= 0

\* run(max_steps) is called
RunCall(max_steps) ==
    /\ pc = "idle"
    /\ pc' = "run"
    /\ call' = [Call("run", "none") EXCEPT
                    !.max_steps = max_steps,
                    !.pre_tape = tape, !.pre_state = cur_state,
                    !.pre_head = head, !.pre_count = nexecuted_steps]
    /\ notes' = <<>>
    /\ UNCHANGED <<builder, bcall, tm, tape, head, cur_state, nexecuted_steps, observers>>

\* isWordAccepted(word, max_steps) is called: it saves tape, state and head
\* and calls setTape(word); the loop of run() follows
IsWordAcceptedCall(word, max_steps) ==
    /\ pc = "idle"
    /\ IF setTape_raises(word) = "none"
        THEN /\ tape' = ListTape(setTape_list(word, 0))
             /\ head' = setTape_head(word, 0)
             /\ notes' = setTape_notes(0)
             /\ pc' = "run"
        ELSE /\ UNCHANGED <<tape, head, pc>>
             /\ notes' = <<>>
    /\ call' = [Call("isWordAccepted", setTape_raises(word)) EXCEPT
                    !.word = word, !.max_steps = max_steps,
                    !.old_tape = tape, !.old_state = cur_state, !.old_head = head,
                    !.pre_tape = tape, !.pre_state = cur_state,
                    !.pre_head = head, !.pre_count = nexecuted_steps]
    /\ UNCHANGED <<builder, bcall, tm, cur_state, nexecuted_steps, observers>>

\* Mutant of run_steps: the loop without a bound stops in a final state too
run_steps_stopsAtFinal ==
    IF bounded(call.max_steps) THEN call.i < call.max_steps
    ELSE ~isAtHaltState /\ ~isAtFinalState

\* Mutant of run_steps: the bounded loop stops one step early
run_steps_oneLess ==
    IF bounded(call.max_steps) THEN call.i + 1 < call.max_steps
    ELSE ~isAtHaltState

\* Does the loop of run() call step() once more?
run_steps ==
    IF bounded(call.max_steps) THEN call.i < call.max_steps
    ELSE ~isAtHaltState

\* Mutant of run_returns: HaltStateException is not caught
run_returns_noCatch ==
    IF ~run_steps THEN (IF bounded(call.max_steps) THEN 1 ELSE 0)
    ELSE IF StepRaises(config) = "UnknownTransitionException" THEN 2
    ELSE 0 - 1

\* The value run() returns when its loop ends here, -1 when an exception
\* leaves run()
run_returns ==
    IF ~run_steps THEN (IF bounded(call.max_steps) THEN 1 ELSE 0)
    ELSE IF StepRaises(config) = "HaltStateException" /\ bounded(call.max_steps) THEN 0
    ELSE IF StepRaises(config) = "UnknownTransitionException" THEN 2
    ELSE 0 - 1

\* Mutant of accepted: an unknown transition is not an end of the word
accepted_haltOnly(end_cond) ==
    IF end_cond = 0
        THEN (IF isAtFinalState THEN "True" ELSE "False")
        ELSE "None"

\* isWordAccepted: accepted, from end_cond and the state run() ended in
accepted(end_cond) ==
    IF end_cond = 0 \/ end_cond = 2
        THEN (IF isAtFinalState THEN "True" ELSE "False")
        ELSE "None"

\* Mutant of restored_head: the head is not set back
restored_head_kept == head

\* What isWordAccepted sets back after run() has returned
restored_tape == call.old_tape
restored_state == call.old_state
restored_head == call.old_head

\* One pass of the loop of run(); the pass that ends the loop also returns,
\* and returns from isWordAccepted when that is the caller
RunIter(maxTape, maxCount) ==
    /\ pc = "run"
    /\ IF run_steps /\ StepRaises(config) = "none"
        THEN /\ StepWithin(maxTape, maxCount)
             /\ step
             /\ call' = [call EXCEPT !.i = @ + 1, !.done = @ + 1]
             /\ pc' = "run"
        ELSE /\ pc' = "idle"
             /\ notes' = IF run_steps THEN step_notes ELSE <<>>
             /\ UNCHANGED nexecuted_steps
             /\ IF run_returns = 0 - 1
                 THEN /\ call' = [call EXCEPT !.exc = StepRaises(config), !.end_state = cur_state]
                      /\ UNCHANGED <<tape, head, cur_state>>
                 ELSE IF call.op = "run"
                 THEN /\ call' = [call EXCEPT !.end_cond = run_returns,
                                              !.end_state = cur_state]
                      /\ UNCHANGED <<tape, head, cur_state>>
                 ELSE /\ call' = [call EXCEPT !.end_cond = run_returns,
                                              !.end_state = cur_state,
                                              !.accepted = accepted(run_returns)]
                      /\ tape' = restored_tape
                      /\ cur_state' = restored_state
                      /\ head' = restored_head
    /\ UNCHANGED <<builder, bcall, tm, observers>>

----------------------------------------------------------------------------
\* The general specification: the second machine, no observers
Init == InitOf(Machines)

Next ==
    \/ Step(MaxTape, MaxCount)
    \/ \E t \in Words, h \in HeadPositions : SetTape(t, h)
    \/ SetAtInitialState
    \/ ResetExecutedStepsCounter
    \/ \E n \in StepBounds : RunCall(n)
    \/ \E w \in Words, n \in StepBounds : IsWordAcceptedCall(w, n)
    \/ RunIter(MaxTape, MaxCount)

Spec == Init /\ [][Next]_vars

\* The specification with observers: the second machine, started in its
\* initial state or in its halt state, with up to two observers attached
ObsWords == {<<>>, <<"1">>, <<"1", "0">>, <<"3">>, <<"1", "3">>}
ObsHeadPositions == {0 - 1, 0, 1}
ObsStepBounds == {None, 1}

InitObs == InitOf({Walker, Stopped})

NextObs ==
    \/ Step(MaxTape, MaxCount)
    \/ \E t \in ObsWords, h \in ObsHeadPositions : SetTape(t, h)
    \/ SetAtInitialState
    \/ \E o \in ObserverIds : AttachObserver(o)
    \/ \E o \in ObserverIds : DetachObserver(o)
    \/ \E n \in ObsStepBounds : RunCall(n)
    \/ \E w \in ObsWords, n \in ObsStepBounds : IsWordAcceptedCall(w, n)
    \/ RunIter(MaxTape, MaxCount)

SpecObs == InitObs /\ [][NextObs]_vars

\* The scenario of the test of tm.py: the binary incrementer, its tapes and
\* its words
ScenarioTape == <<"1", "0", "0", "0", "0", "1">>
ScenarioBadTape == <<"1", "0", "1", "0", "0", "1", "0", "3">>
ScenarioWords == {<<"1", "0", "1", "0">>, <<"1", "0", "0", "0">>}

InitScen == InitOf({Incrementer})

NextScen ==
    \/ Step(ScenTape, ScenCount)
    \/ \E t \in {ScenarioTape, ScenarioBadTape} : SetTape(t, 0)
    \/ SetAtInitialState
    \/ ResetExecutedStepsCounter
    \/ RunCall(None)
    \/ \E w \in ScenarioWords : IsWordAcceptedCall(w, None)
    \/ RunIter(ScenTape, ScenCount)

SpecScen == InitScen /\ [][NextScen]_vars

\* The specification of run(): once run() is called, its loop goes on until
\* it returns or raises, so the passes of the loop are weakly fair
NextRun ==
    \/ \E t \in Words, h \in HeadPositions : SetTape(t, h)
    \/ SetAtInitialState
    \/ \E n \in StepBounds : RunCall(n)
    \/ RunIter(MaxTape, MaxCount)

SpecRun == Init /\ [][NextRun]_vars /\ WF_vars(RunIter(MaxTape, MaxCount))

----------------------------------------------------------------------------
\* The constructor and the builder

machine == <<tm, tape, head, cur_state, nexecuted_steps, observers>>

\* TuringMachine.__init__ after _checkData has raised nothing
init(m) ==
    /\ tm' = m
    /\ tape' = NoTape
    /\ head' = 0
    /\ cur_state' = m.istate
    /\ nexecuted_steps' = 0
    /\ observers' = <<>>

\* Mutant of kept_machine: the machine holds the sets and the table of the
\* builder themselves
kept_machine_shared(b) ==
    IF tm = NoMachine THEN tm
    ELSE [tm EXCEPT !.states = b.states, !.in_alphabet = b.in_alphabet,
                    !.trans_function = b.trans_function, !.fstates = b.fstates]

\* The machine created earlier, once its builder has become b: __init__
\* keeps frozenset() copies of the sets and a copy.copy() of the table it
\* is given
kept_machine(b) == tm

\* TuringMachine(...) is called with the data m
Construct(m) ==
    /\ tm = NoMachine
    /\ \E e \in construct_raises(m) :
        /\ bcall' = [BCall("TuringMachine", e) EXCEPT !.args = m]
        /\ IF e = "none" THEN init(m) ELSE UNCHANGED machine
    /\ UNCHANGED <<notes, pc, call, builder>>

\* The callers of the model change a builder that has created a machine
\* once before they call create() again
BuilderOpen == tm = NoMachine \/ bcall.op = "create"

\* clean()
Clean ==
    /\ BuilderOpen
    /\ builder' = NewBuilder
    /\ bcall' = BCall("clean", "none")
    /\ tm' = kept_machine(builder')
    /\ UNCHANGED <<tape, head, cur_state, nexecuted_steps, observers, notes, pc, call>>

\* addTransition(state, symbol, new_state, new_symbol, movement)
AddTransition(state, symbol, new_state, new_symbol, movement) ==
    /\ BuilderOpen
    /\ builder' = IF addTransition_raises(symbol, new_symbol, movement) = "none"
                    THEN addTransition_builder(state, symbol, new_state, new_symbol, movement)
                    ELSE builder
    /\ bcall' = [BCall("addTransition", addTransition_raises(symbol, new_symbol, movement))
                    EXCEPT !.trans = <<state, symbol, new_state, new_symbol, movement>>]
    /\ tm' = kept_machine(builder')
    /\ UNCHANGED <<tape, head, cur_state, nexecuted_steps, observers, notes, pc, call>>

\* addFinalState(state)
AddFinalState(state) ==
    /\ BuilderOpen
    /\ builder' = addFinalState_builder(state)
    /\ bcall' = BCall("addFinalState", "none")
    /\ tm' = kept_machine(builder')
    /\ UNCHANGED <<tape, head, cur_state, nexecuted_steps, observers, notes, pc, call>>

\* setInitialState(state)
SetInitialState(state) ==
    /\ BuilderOpen
    /\ builder' = setInitialState_builder(state)
    /\ bcall' = BCall("setInitialState", "none")
    /\ tm' = kept_machine(builder')
    /\ UNCHANGED <<tape, head, cur_state, nexecuted_steps, observers, notes, pc, call>>

\* setBlankSymbol(blank_sym)
SetBlankSymbol(blank_sym) ==
    /\ BuilderOpen
    /\ builder' = IF setBlankSymbol_raises(blank_sym) = "none"
                    THEN [builder EXCEPT !.blank = blank_sym] ELSE builder
    /\ bcall' = BCall("setBlankSymbol", setBlankSymbol_raises(blank_sym))
    /\ tm' = kept_machine(builder')
    /\ UNCHANGED <<tape, head, cur_state, nexecuted_steps, observers, notes, pc, call>>

\* setHaltState(haltstate)
SetHaltState(haltstate) ==
    /\ BuilderOpen
    /\ builder' = IF setHaltState_raises = "none"
                    THEN setHaltState_builder(haltstate) ELSE builder
    /\ bcall' = [BCall("setHaltState", setHaltState_raises) EXCEPT !.trans = <<haltstate>>]
    /\ tm' = kept_machine(builder')
    /\ UNCHANGED <<tape, head, cur_state, nexecuted_steps, observers, notes, pc, call>>

\* create()
Create ==
    /\ IF create_raises /= "none"
        THEN /\ bcall' = BCall("create", create_raises)
             /\ UNCHANGED machine
        ELSE \E e \in construct_raises(create_args) :
                /\ bcall' = [BCall("create", e) EXCEPT !.args = create_args]
                /\ IF e = "none" THEN init(create_args) ELSE UNCHANGED machine
    /\ UNCHANGED <<builder, notes, pc, call>>

\* A call of parseString is under way
parsing == bcall.op = "parseString" /\ bcall.exc = "none" /\ bcall.line < Len(bcall.lines)

\* TuringMachineParser.parseLine(data)
ParseLine(data) ==
    /\ BuilderOpen
    /\ ~parsing
    /\ builder' = parseLine_builder(data)
    /\ bcall' = [BCall("parseLine", parseLine_raises(data))
                    EXCEPT !.lines = <<data>>, !.line = 1]
    /\ tm' = kept_machine(builder')
    /\ UNCHANGED <<tape, head, cur_state, nexecuted_steps, observers, notes, pc, call>>

\* TuringMachineParser.parseString(string_data) up to the loop of _parse;
\* string_data is a str
ParseString(string_data) ==
    /\ BuilderOpen
    /\ ~parsing
    /\ bcall' = [BCall("parseString", "none")
                    EXCEPT !.lines = splitlines(string_data), !.pre = builder]
    /\ UNCHANGED <<builder, machine, notes, pc, call>>

\* One iteration of the loop of _parse: a line without data is skipped,
\* the exception of parseLine ends the loop
ParseIter ==
    /\ parsing
    /\ LET data == bcall.lines[bcall.line + 1]
       IN  IF data = <<>>
            THEN /\ bcall' = [bcall EXCEPT !.line = @ + 1]
                 /\ UNCHANGED builder
            ELSE /\ builder' = parseLine_builder(data)
                 /\ bcall' = [bcall EXCEPT
                        !.line = @ + 1,
                        !.exc = parseLine_raises(data),
                        !.lineno = IF parseLine_raises(data) = "none" THEN 0
                                   ELSE parse_lineno(bcall.lines, bcall.line)]
    /\ tm' = kept_machine(builder')
    /\ UNCHANGED <<tape, head, cur_state, nexecuted_steps, observers, notes, pc, call>>

\* TuringMachineParser.clean() and create(): the calls of the builder
ParserClean == ~parsing /\ Clean
ParserCreate == ~parsing /\ Create

\* The data callers pass to the constructor: the incrementer of the test of
\* tm.py, and the incrementer with one or more of its parts replaced
ZeroSourceTrans == (<<"0", "1">> :> <<"1", "1", MOVE_RIGHT>>) @@ IncrementerTrans
ZeroTargetTrans == (<<"1", "1">> :> <<"0", "0", MOVE_RIGHT>>) @@ IncrementerTrans
BadMoveTrans == (<<"1", "1">> :> <<"2", "0", 4>>) @@ IncrementerTrans
BothBadTrans == (<<"5", "1">> :> <<"0", "1", MOVE_RIGHT>>)

ConstructorArgs ==
    {TuringMachine(st, ia, ta, tf, i, f, h, b) :
        st \in {{"1", "2", "3", "HALT"}, {"1", "2", "HALT"}},
        ia \in {{"0", "1"}, {"1"}, {"0"}},
        ta \in {{"0", "1", "#"}, {"1", "#"}, {"0", "#"}},
        tf \in {IncrementerTrans, ZeroSourceTrans, ZeroTargetTrans, BadMoveTrans, BothBadTrans},
        i \in {"1", "9"},
        f \in {{"2"}, {"7"}},
        h \in {"HALT", "STOP"},
        b \in {"#", "_"}}

\* The specification of the constructor
InitCons == InitOf({NoMachine})

NextCons == \E m \in ConstructorArgs : Construct(m)

SpecCons == InitCons /\ [][NextCons]_vars

\* The specification of the machines the constructor returns: a machine is
\* constructed from data the constructor may accept, and then it is used
MadeArgs ==
    {m \in ConstructorArgs :
        /\ m.states = {"1", "2", "3", "HALT"}
        /\ m.trans_function \in {IncrementerTrans, ZeroTargetTrans}
        /\ m.blank = "#"}

MadeWords == {<<>>, <<"1">>, <<"1", "1">>, <<"0">>, <<"3">>}

NextMade ==
    \/ \E m \in MadeArgs : Construct(m)
    \/ tm /= NoMachine /\ Step(MaxTape, MaxCount)
    \/ \E t \in MadeWords, h \in {0, 1} : tm /= NoMachine /\ SetTape(t, h)
    \/ tm /= NoMachine /\ SetAtInitialState
    \/ \E n \in {None, 1} : tm /= NoMachine /\ RunCall(n)
    \/ \E w \in MadeWords, n \in {None, 1} : tm /= NoMachine /\ IsWordAcceptedCall(w, n)
    \/ tm /= NoMachine /\ RunIter(MaxTape, MaxCount)

SpecMade == InitCons /\ [][NextMade]_vars

\* The calls of the builder specification
BTransitions ==
    {<<"p", "0", "q", "0", MOVE_RIGHT>>,
     <<"p", "0", "H", "ab", MOVE_RIGHT>>,
     <<"q", "ab", "H", "#", MOVE_LEFT>>,
     <<"p", "0", "p", "0", 4>>}

\* The specification of the builder
InitBuilder == InitOf({NoMachine})

NextBuilder ==
    \/ Clean
    \/ \E t \in BTransitions : AddTransition(t[1], t[2], t[3], t[4], t[5])
    \/ \E s \in {"H"} : AddFinalState(s)
    \/ \E s \in {"p"} : SetInitialState(s)
    \/ \E b \in {"#", "_", "ab", "", "0", "1"} : SetBlankSymbol(b)
    \/ \E h \in {"H", "G"} : SetHaltState(h)
    \/ Create

SpecBuilder == InitBuilder /\ [][NextBuilder]_vars

\* The lines given to parseLine, as Python writes them
PLines ==
    {
     <<"I", "N", "I", "T", "I", "A", "L", " ", "1">>,    \* 'INITIAL 1'
     <<"I", "N", "I", "T", "I", "A", "L", " ", " ", "2", " ">>,    \* 'INITIAL  2 '
     <<"I", "N", "I", "T", "I", "A", "L", " ", "q", "0">>,    \* 'INITIAL q0'
     <<"B", "L", "A", "N", "K", " ", "#">>,    \* 'BLANK #'
     <<"B", "L", "A", "N", "K", " ", "_">>,    \* 'BLANK _'
     <<"B", "L", "A", "N", "K", " ", "a", "b">>,    \* 'BLANK ab'
     <<"H", "A", "L", "T", " ", "H">>,    \* 'HALT H'
     <<" ", " ", "H", "A", "L", "T", " ", "q", "0">>,    \* '  HALT q0'
     <<"F", "I", "N", "A", "L", " ", "2">>,    \* 'FINAL 2'
     <<"F", "I", "N", "A", "L", " ", "q", "0">>,    \* 'FINAL q0'
     <<" ", "2", ",", "1", "-", ">", "q", "0", ",", "1", ",", "<">>,    \* ' 2,1->q0,1,<'
     <<" ", " ", "%", " ", "I", "N", "I", "T", "I", "A", "L", " ", "3">>,    \* '  % INITIAL 3'
     <<"F", "I", "N", "A", "L", " ", "2", " ", "%", " ", "c">>,    \* 'FINAL 2 % c'
     <<" ">>,    \* ' '
     <<>>}    \* ''

\* The specification of the parser called line by line
NextParser ==
    \/ \E data \in PLines : ParseLine(data)
    \/ ParserClean

SpecParser == InitBuilder /\ [][NextParser]_vars

\* The lines of the texts given to parseString, and the most lines of a text
TLines ==
    {
     <<"I", "N", "I", "T", "I", "A", "L", " ", "1">>,    \* 'INITIAL 1'
     <<" ", " ", "H", "A", "L", "T", " ", "q", "0">>,    \* '  HALT q0'
     <<"F", "I", "N", "A", "L", " ", "2">>,    \* 'FINAL 2'
     <<" ", "2", ",", "1", "-", ">", "q", "0", ",", "1", ",", "<">>,    \* ' 2,1->q0,1,<'
     <<" ", " ", "%", " ", "I", "N", "I", "T", "I", "A", "L", " ", "3">>,    \* '  % INITIAL 3'
     <<" ">>,    \* ' '
     <<>>}    \* ''
MaxLines == 2

\* The text of the lines ls, each ended by end
RECURSIVE JoinLines(_, _)
JoinLines(ls, end) == IF ls = <<>> THEN <<>> ELSE Head(ls) \o end \o JoinLines(Tail(ls), end)

\* The texts: up to MaxLines lines each ended by "\n", and two lines each
\* ended by "\r\n" or with nothing after the second
PTexts ==
    {JoinLines(ls, <<"\n">>) : ls \in UNION {[1 .. n -> TLines] : n \in 0 .. MaxLines}}
    \cup {JoinLines(ls, <<"\r", "\n">>) : ls \in [1 .. 2 -> TLines]}
    \cup {ls[1] \o <<"\n">> \o ls[2] : ls \in [1 .. 2 -> TLines]}

\* The specification of the parser given whole texts
NextParse ==
    \/ \E data \in TLines : ParseLine(data)
    \/ \E string_data \in PTexts : ParseString(string_data)
    \/ ParseIter
    \/ ParserClean

SpecParse == InitBuilder /\ [][NextParse]_vars

\* The calls of the test of tmbuilder.py, in its order
TestCalls ==
    <<<<"setBlankSymbol", "#">>,
      <<"setHaltState", "HALT">>,
      <<"addTransition", "1", "0", "2", "1", MOVE_RIGHT>>,
      <<"addTransition", "1", "1", "2", "0", MOVE_RIGHT>>,
      <<"addTransition", "2", "0", "1", "0", NON_MOVEMENT>>,
      <<"addTransition", "2", "1", "3", "1", MOVE_RIGHT>>,
      <<"addTransition", "3", "0", "HALT", "0", NON_MOVEMENT>>,
      <<"addTransition", "3", "1", "HALT", "1", NON_MOVEMENT>>,
      <<"addTransition", "3", "#", "HALT", "#", NON_MOVEMENT>>,
      <<"setInitialState", "1">>,
      <<"addFinalState", "2">>>>

\* The builder shows that the call c of the test has been made
TestDone(c) ==
    IF c[1] = "setBlankSymbol" THEN hasBlankSymbol
    ELSE IF c[1] = "setHaltState" THEN hasHaltState
    ELSE IF c[1] = "addTransition" THEN <<c[2], c[3]>> \in DOMAIN builder.trans_function
    ELSE IF c[1] = "setInitialState" THEN hasInitialState
    ELSE c[2] \in builder.fstates

\* The test of tmbuilder.py makes its next call: the first one not made yet
BuilderTest ==
    \E k \in 1 .. Len(TestCalls) :
        LET c == TestCalls[k]
        IN  /\ tm = NoMachine
            /\ bcall.op \notin {"parseString", "parseLine"}
            /\ \A j \in 1 .. k - 1 : TestDone(TestCalls[j])
            /\ ~TestDone(c)
            /\ \/ c[1] = "setBlankSymbol" /\ SetBlankSymbol(c[2])
               \/ c[1] = "setHaltState" /\ SetHaltState(c[2])
               \/ c[1] = "addTransition" /\ AddTransition(c[2], c[3], c[4], c[5], c[6])
               \/ c[1] = "setInitialState" /\ SetInitialState(c[2])
               \/ c[1] = "addFinalState" /\ AddFinalState(c[2])

\* The text of the test of tmparser.py
test_str ==
    <<"%", " ", "S", "t", "a", "r", "t", " ", "w", "i", "t", "h", " ", "a", " ", "c", "o", "m", "m", "e", "n", "t", " ", "l", "i", "n", "e", "\n">>
    \o <<" ", " ", "%", " ", "A", "n", "o", "t", "h", "e", "r", " ", "c", "o", "m", "m", "e", "n", "t", " ", "l", "i", "n", "e", "\n">>
    \o <<"H", "A", "L", "T", " ", "H", "A", "L", "T", "\n">>
    \o <<"B", "L", "A", "N", "K", " ", "#", "\n">>
    \o <<"I", "N", "I", "T", "I", "A", "L", " ", "1", "\n">>
    \o <<"F", "I", "N", "A", "L", " ", "2", "\n">>
    \o <<"1", ",", " ", "0", " ", "-", ">", " ", "2", ",", " ", "1", ",", " ", ">", "\n">>
    \o <<"1", ",", " ", "1", " ", "-", ">", " ", "2", ",", " ", "0", ",", " ", ">", " ", "\n">>
    \o <<"2", ",", " ", "0", " ", "-", ">", " ", "1", ",", " ", "0", ",", " ", "_", "\n">>
    \o <<" ", "2", ",", "1", "-", ">", "3", ",", "1", ",", ">", "\n", " ">>
    \o <<"3", ",", " ", "0", " ", "-", ">", " ", "H", "A", "L", "T", ",", " ", "0", ",", " ", "_", "\n">>
    \o <<"3", ",", " ", "1", " ", "-", ">", " ", "H", "A", "L", "T", ",", " ", "1", ",", " ", "_", "\n">>
    \o <<"3", ",", " ", "#", " ", "-", ">", " ", "H", "A", "L", "T", ",", " ", "#", ",", " ", "_", "\n">>

\* The test of tmparser.py calls parseString on a new parser
ParserTest == builder = NewBuilder /\ bcall.op = "none" /\ ParseString(test_str)

\* str(v): the text of an integer, a text as it is
str(v) == IF v \in IntValues THEN Text(<<v>>) ELSE v

\* The tapes of the two tests' machine: integers for the machine of the
\* builder's test, their texts for the machine of the parser's test
RoundTapes == {<<"1", "0", "1", "1">>, <<"'1'", "'0'", "'1'", "'1'">>}
RoundWords == {<<"1", "0">>, <<"'1'", "'0'">>}

\* The calls of the builder after a machine was created
BuilderChange ==
    /\ tm /= NoMachine
    /\ \/ Clean
       \/ AddTransition("1", "#", "HALT", "#", MOVE_LEFT)
       \/ AddTransition("7", "'1'", "2", "1", MOVE_LEFT)
       \/ SetHaltState("G")

\* The specification of the two tests and of the machine each creates, with
\* the calls of the machine and a call of the builder that follow
NextRound ==
    \/ BuilderTest
    \/ ParserTest
    \/ ParseIter
    \/ tm = NoMachine /\ ParserCreate
    \/ BuilderChange
    \/ tm /= NoMachine /\ ~parsing /\
            \/ \E t \in RoundTapes : SetTape(t, 0)
            \/ Step(ScenTape, ScenCount)
            \/ SetAtInitialState
            \/ RunCall(None)
            \/ \E w \in RoundWords : IsWordAcceptedCall(w, None)
    \/ RunIter(ScenTape, ScenCount)

SpecRound == InitBuilder /\ [][NextRound]_vars

----------------------------------------------------------------------------
\* Reference semantics used by the properties

\* An INITIAL, FINAL or HALT line as the grammar has it: the expression of
\* the HALT lines with the given word in the place of HALT
directive_re(word) == SpStar \o Lit(word) \o SubSeq(halt_state_re, 6, Len(halt_state_re))
InitialDirective(data) == match(directive_re(<<"I", "N", "I", "T", "I", "A", "L">>), data)
FinalDirective(data) == match(directive_re(<<"F", "I", "N", "A", "L">>), data)
HaltDirective(data) == match(directive_re(<<"H", "A", "L", "T">>), data)

\* The value of which v is the text, v itself when it is the text of none
unstr(v) == IF \E d \in IntValues : str(d) = v THEN CHOOSE d \in IntValues : str(d) = v ELSE v

\* A tape with every symbol replaced by its text, and by the value of which
\* it is the text
RECURSIVE strs(_)
strs(l) == IF l = <<>> THEN <<>> ELSE <<str(Head(l))>> \o strs(Tail(l))
RECURSIVE unstrs(_)
unstrs(l) == IF l = <<>> THEN <<>> ELSE <<unstr(Head(l))>> \o unstrs(Tail(l))

\* The machine m with every state and symbol replaced by its text
StrMachine(m) ==
    TuringMachine({str(q) : q \in m.states},
                  {str(x) : x \in m.in_alphabet},
                  {str(x) : x \in m.tape_alphabet},
                  [k \in {<<str(o[1]), str(o[2])>> : o \in DOMAIN m.trans_function} |->
                      LET t == m.trans_function[<<unstr(k[1]), unstr(k[2])>>]
                      IN  <<str(t[1]), str(t[2]), t[3]>>],
                  str(m.istate), {str(q) : q \in m.fstates}, str(m.hstate), str(m.blank))

\* The run of a machine m from the cell h (counted from 0) of the tape l in
\* the state q, of at most fuel steps: how it ends (0 in the halt state, 2
\* without transition, -1 out of fuel) and the tape, head and state then.
\* The tape grows by a blank where the head leaves it
RECURSIVE RefRun(_, _, _, _, _)
RefRun(m, l, h, q, fuel) ==
    IF q = m.hstate THEN [end |-> 0, list |-> l, head |-> h, state |-> q]
    ELSE IF <<q, l[h + 1]>> \notin DOMAIN m.trans_function
        THEN [end |-> 2, list |-> l, head |-> h, state |-> q]
    ELSE IF fuel = 0 THEN [end |-> -1, list |-> l, head |-> h, state |-> q]
    ELSE LET t == m.trans_function[<<q, l[h + 1]>>]
             w == [l EXCEPT ![h + 1] = t[2]]
         IN  IF t[3] = MOVE_LEFT
                THEN (IF h = 0 THEN RefRun(m, <<m.blank>> \o w, 0, t[1], fuel - 1)
                      ELSE RefRun(m, w, h - 1, t[1], fuel - 1))
             ELSE IF t[3] = MOVE_RIGHT
                THEN RefRun(m, IF h + 1 = Len(w) THEN Append(w, m.blank) ELSE w,
                            h + 1, t[1], fuel - 1)
             ELSE RefRun(m, w, h, t[1], fuel - 1)

\* A call of parseString has returned or raised
ParseReturned == bcall.op = "parseString" /\ ~parsing

\* The lines among the first n of ls that are of the given kind
LinesOf(ls, n, kind) == {j \in 1 .. n : ls[j] /= <<>> /\ parseLine_kind(ls[j]) = kind}

\* The value a directive of the given kind leaves in an attribute that was
\* old: the first n lines of ls have at most one line of that kind
SetBy(ls, n, kind, p, old) ==
    IF LinesOf(ls, n, kind) = {} THEN old
    ELSE Text(match(p, ls[CHOOSE j \in LinesOf(ls, n, kind) : TRUE]).group[1])

\* b is the builder b0 with the first n lines of ls applied, none of them a
\* BLANK line
Applied(b0, ls, n, b) ==
    LET trs == {parse_transition(ls[j]) : j \in LinesOf(ls, n, "transition")}
        fin == {Text(match(final_state_re, ls[j]).group[1]) : j \in LinesOf(ls, n, "final")}
    IN  /\ b.istate = SetBy(ls, n, "initial", inital_state_re, b0.istate)
        /\ b.haltstate = SetBy(ls, n, "halt", halt_state_re, b0.haltstate)
        /\ b.blank = b0.blank
        /\ b.fstates = b0.fstates \cup fin
        /\ DOMAIN b.trans_function =
                DOMAIN b0.trans_function \cup {<<t[1], t[2]>> : t \in trs}
        /\ \A t \in trs : b.trans_function[<<t[1], t[2]>>] = <<t[3], t[4], t[5]>>
        /\ \A k \in DOMAIN b0.trans_function \ {<<t[1], t[2]>> : t \in trs} :
                b.trans_function[k] = b0.trans_function[k]
        /\ b.in_alphabet =
                b0.in_alphabet \cup (UNION {{t[2], t[4]} : t \in trs} \ {b0.blank})
        /\ b.states =
                b0.states \cup fin \cup UNION {{t[1], t[3]} : t \in trs}
                \cup ({b.istate, b.haltstate} \ {b0.istate, b0.haltstate, Unset})

\* An iteration of the loop of _parse on the line data
LooksAt(data) ==
    /\ parsing
    /\ bcall.lines[bcall.line + 1] = data
    /\ bcall'.op = "parseString" /\ bcall'.lines = bcall.lines /\ bcall'.line = bcall.line + 1

\* A line of spaces only, or without characters
BlankLine(data) == \A k \in 1 .. Len(data) : data[k] \in SpaceChars

\* A step in which parseLine is given the line data: a call of parseLine or
\* an iteration of the loop of _parse on a line with data
ParsesLine(data) ==
    \/ bcall'.op = "parseLine" /\ bcall'.lines = <<data>>
    \/ /\ parsing /\ bcall' = [bcall EXCEPT !.line = @ + 1, !.exc = bcall'.exc, !.lineno = bcall'.lineno]
       /\ bcall.lines[bcall.line + 1] = data /\ data /= <<>>

\* The configuration in which the call in progress or last finished was made
PreConfig == Config(call.pre_tape, call.pre_head, call.pre_state)

\* n consecutive steps succeed from c and none of them enters the halt state
RECURSIVE StepsWithoutHalt(_, _)
StepsWithoutHalt(c, n) ==
    IF n = 0 THEN TRUE
    ELSE /\ StepRaises(c) = "none"
         /\ step_state(c) /= tm.hstate
         /\ StepsWithoutHalt(step_config(c), n - 1)

\* Execution from c is in the halt state after exactly k successful steps
RECURSIVE HaltsAfter(_, _)
HaltsAfter(c, k) ==
    IF k = 0 THEN c.state = tm.hstate
    ELSE StepRaises(c) = "none" /\ HaltsAfter(step_config(c), k - 1)

\* The configuration after n successful steps from c
RECURSIVE StepN(_, _)
StepN(c, n) == IF n = 0 THEN c ELSE StepN(step_config(c), n - 1)

\* Execution from c, where cnt steps are counted, reaches the halt state or
\* a pair without transition by steps the model makes
RECURSIVE EndsWithin(_, _)
EndsWithin(c, cnt) ==
    \/ c.state = tm.hstate
    \/ StepRaises(c) = "UnknownTransitionException"
    \/ /\ StepRaises(c) = "none"
       /\ Len(step_list(c)) <= MaxTape
       /\ cnt < MaxCount
       /\ EndsWithin(step_config(c), cnt + 1)

\* How run(max_steps) ends when called in the configuration c, i passes of
\* its loop made: the value it returns and the state it ends in; -1 when it
\* makes more than fuel steps
RECURSIVE RunEnd(_, _, _, _)
RunEnd(c, max_steps, i, fuel) ==
    IF bounded(max_steps) /\ i >= max_steps THEN [end |-> 1, state |-> c.state]
    ELSE IF c.state = tm.hstate THEN [end |-> 0, state |-> c.state]
    ELSE IF StepRaises(c) = "UnknownTransitionException" THEN [end |-> 2, state |-> c.state]
    ELSE IF StepRaises(c) /= "none" \/ fuel = 0 THEN [end |-> 0 - 1, state |-> c.state]
    ELSE RunEnd(step_config(c), max_steps, i + 1, fuel - 1)

\* The answer of isWordAccepted(word, max_steps) of a machine in its initial
\* state: "True", "False", "None", and "?" when the run makes more than
\* fuel steps
AnswerAtStart(word, max_steps, fuel) ==
    LET r == RunEnd(Config(ListTape(setTape_list(word, 0)), 0, tm.istate), max_steps, 0, fuel)
    IN  IF r.end = 0 - 1 THEN "?"
        ELSE IF r.end = 1 THEN "None"
        ELSE IF r.state \in tm.fstates THEN "True" ELSE "False"

\* The ideal machine: a tape without ends, blank but for finitely many
\* cells, seen from the head.  Offsets are the cells the comparison looks
\* at, the cell under the head is the one at offset 0; the lists of the
\* model are shorter than the part at either side, so the cells beyond it
\* are blank.
Offsets == (0 - (MaxTape + 2)) .. (MaxTape + 2)

\* The ideal configuration on input seq with the head on cell h, in state q
IdealInput(seq, h, q) ==
    [state |-> q,
     cells |-> [d \in Offsets |->
                    IF 0 <= h + d /\ h + d < Len(seq) THEN seq[h + d + 1] ELSE tm.blank]]

\* One step of the ideal machine: it writes under the head and the tape
\* slides by one cell under the head
IdealStep(v) ==
    LET t == tm.trans_function[<<v.state, v.cells[0]>>]
        by == IF t[3] = MOVE_RIGHT THEN 1 ELSE IF t[3] = MOVE_LEFT THEN 0 - 1 ELSE 0
        at(d) == IF d = 0 THEN t[2] ELSE IF d \in Offsets THEN v.cells[d] ELSE tm.blank
    IN  [state |-> t[1], cells |-> [d \in Offsets |-> at(d + by)]]

\* n steps of the ideal machine
RECURSIVE IdealRun(_, _)
IdealRun(v, n) == IF n = 0 THEN v ELSE IdealRun(IdealStep(v), n - 1)

\* What the machine shows in configuration c: its state and, through
\* getSymbolAt, the symbols around its head
View(c) ==
    [state |-> c.state, cells |-> [d \in Offsets |-> getSymbolAt(c, c.head + d)]]

RunReturned == pc = "idle" /\ call.op = "run" /\ call.exc = "none"
AcceptReturned == pc = "idle" /\ call.op = "isWordAccepted" /\ call.exc = "none"

----------------------------------------------------------------------------
\* Properties

\* C1 (SpecScen): on the binary incrementer, run() without a bound called in
\* state 1 with the tape [1,0,0,0,0,1] and the head at 0 returns 0, leaves
\* the machine at HALT and the tape reading [0,1,1,1,1,1,#].
C1_IncrementerRun ==
    (/\ pc = "idle" /\ call.op = "run" /\ call.max_steps = None
     /\ call.pre_tape = ListTape(ScenarioTape)
     /\ call.pre_head = 0 /\ call.pre_state = "1")
    => (/\ call.exc = "none"
        /\ call.end_cond = 0
        /\ cur_state = "HALT"
        /\ tape = ListTape(<<"0", "1", "1", "1", "1", "1", "#">>))

C1_Witness ==
    /\ RunReturned /\ call.max_steps = None
    /\ call.pre_tape = ListTape(ScenarioTape)
    /\ call.pre_head = 0 /\ call.pre_state = "1"
    /\ call.end_cond = 0 /\ call.done = 11
    /\ tape = ListTape(<<"0", "1", "1", "1", "1", "1", "#">>)

\* C2 (Spec), as claimed: when execution reaches the halt state after exactly
\* k <= N successful steps, run(N) with N >= 1 returns 0 after exactly k
\* steps.  The code returns 1 when k = N.
C2_HaltWithinBoundReturns0 ==
    (pc = "idle" /\ call.op = "run" /\ call.max_steps >= 1)
    => \A k \in 0 .. call.max_steps :
          HaltsAfter(PreConfig, k)
          => (call.exc = "none" /\ call.end_cond = 0 /\ call.done = k)

\* C3 (Spec): when N >= 1 consecutive steps succeed without entering the halt
\* state, run(N) performs exactly N steps, the counter grows by N, and run
\* returns 1.
C3_BoundedRunExactlyN ==
    (/\ pc = "idle" /\ call.op = "run" /\ call.max_steps >= 1
     /\ StepsWithoutHalt(PreConfig, call.max_steps))
    => (/\ call.exc = "none"
        /\ call.end_cond = 1
        /\ call.done = call.max_steps
        /\ nexecuted_steps = call.pre_count + call.max_steps)

C3_Witness ==
    /\ RunReturned /\ call.max_steps >= 2
    /\ StepsWithoutHalt(PreConfig, call.max_steps)
    /\ call.end_cond = 1
    /\ nexecuted_steps = call.pre_count + call.max_steps

\* C4 (Spec), as claimed: run(N) with an integer bound N >= 0 performs at most
\* N steps.  The code runs without a bound when N = 0.
C4_BoundLimitsRun ==
    (call.op = "run" /\ call.max_steps /= None) => call.done <= call.max_steps

\* C5 (Spec): after isWordAccepted has returned, tape, head and current state
\* are what they were when it was called.
C5_AcceptRestores ==
    AcceptReturned
    => (/\ tape = call.pre_tape
        /\ head = call.pre_head
        /\ cur_state = call.pre_state)

C5_Witness ==
    /\ AcceptReturned
    /\ tape.set /\ head > 0
    /\ call.done >= 2
    /\ call.end_state /= cur_state
    /\ tape = call.pre_tape /\ head = call.pre_head /\ cur_state = call.pre_state

\* C6 (Spec), as claimed, for max_steps None or at least 1: isWordAccepted
\* returns None exactly when its run hit the step bound, that is performed
\* max_steps steps without ending in the halt state; otherwise it returns
\* True or False as the state the run ended in is final or not.  The code
\* returns None when the run enters the halt state with step max_steps.
C6_RunHitBound ==
    /\ call.max_steps /= None
    /\ call.done = call.max_steps
    /\ call.end_state /= tm.hstate

C6_IndeterminateIffBound ==
    (AcceptReturned /\ call.max_steps /= 0)
    => (/\ (call.accepted = "None") <=> C6_RunHitBound
        /\ ~C6_RunHitBound
            => call.accepted = (IF call.end_state \in tm.fstates THEN "True" ELSE "False"))

\* C7 (SpecScen): on the binary incrementer in its initial state,
\* isWordAccepted([1,0,1,0]) ends at HALT and returns False, and
\* isWordAccepted([1,0,0,0]) ends by an unknown transition in state 2 and
\* returns True.
C7_ScenarioWords ==
    (/\ pc = "idle" /\ call.op = "isWordAccepted" /\ call.max_steps = None
     /\ call.pre_state = "1")
    => (/\ call.exc = "none"
        /\ call.word = <<"1", "0", "1", "0">>
            => (/\ call.end_cond = 0 /\ call.end_state = "HALT"
                /\ call.accepted = "False")
        /\ call.word = <<"1", "0", "0", "0">>
            => (/\ call.end_cond = 2 /\ call.end_state = "2"
                /\ call.accepted = "True")
        /\ call.accepted =
            (IF call.end_state \in {"2"} THEN "True" ELSE "False"))

C7_Witness ==
    /\ AcceptReturned /\ call.max_steps = None /\ call.pre_state = "1"
    /\ call.word = <<"1", "0", "0", "0">>
    /\ call.end_cond = 2 /\ call.end_state = "2" /\ call.done = 7
    /\ call.accepted = "True"

\* C8 (Spec): step() called with the tape set, the machine not halted and no
\* transition for (current state, symbol under the head) raises
\* UnknownTransitionException and leaves tape, head, current state and step
\* counter unchanged.  The symbol under the head is the one getSymbolAt
\* gives for the position of the head, the blank symbol where the list has
\* no cell.
C8_UnknownTransitionUnchanged ==
    [][(/\ pc = "idle" /\ call'.op = "step"
        /\ tape.set /\ ~isAtHaltState
        /\ <<cur_state, getSymbolAt(config, head)>> \notin DOMAIN tm.trans_function)
       => (/\ call'.exc = "UnknownTransitionException"
           /\ UNCHANGED <<tape, head, cur_state, nexecuted_steps>>)]_vars

\* C9 (SpecObs): step() raises HaltStateException whenever the current state
\* is the halt state, also with the tape unset, and UnsetTapeException when
\* the tape is unset and the state is not the halt state; in both cases
\* nothing changes and no observer is notified.
C9_HaltAndUnsetTape ==
    [][(pc = "idle" /\ call'.op = "step" /\ (isAtHaltState \/ ~tape.set))
       => (/\ call'.exc = (IF isAtHaltState THEN "HaltStateException"
                                            ELSE "UnsetTapeException")
           /\ notes' = <<>>
           /\ UNCHANGED <<builder, bcall, tm, tape, head, cur_state, nexecuted_steps, observers>>)]_vars

C9_Witness ==
    /\ pc = "idle" /\ call.op = "step"
    /\ call.exc = "HaltStateException"
    /\ ~tape.set /\ isAtHaltState
    /\ Len(observers) = 2 /\ notes = <<>>

\* C10 (Spec): run() never raises HaltStateException; called at the halt
\* state, bounded or not, it returns 0 after zero steps and changes nothing;
\* a bounded run that reaches the halt state before its bound returns 0.
C10_RunNeverRaisesHalt ==
    /\ call.op \in {"run", "isWordAccepted"} => call.exc /= "HaltStateException"
    /\ (pc = "idle" /\ call.op = "run" /\ call.pre_state = tm.hstate)
        => (/\ call.exc = "none" /\ call.end_cond = 0 /\ call.done = 0
            /\ tape = call.pre_tape /\ head = call.pre_head
            /\ cur_state = call.pre_state
            /\ nexecuted_steps = call.pre_count)
    /\ (/\ pc = "idle" /\ call.op = "run" /\ bounded(call.max_steps)
        /\ isAtHaltState /\ call.done < call.max_steps)
        => (call.exc = "none" /\ call.end_cond = 0)

C10_Witness ==
    /\ RunReturned /\ call.max_steps >= 1
    /\ call.pre_state = tm.hstate /\ tape.set
    /\ call.end_cond = 0 /\ call.done = 0

----------------------------------------------------------------------------
\* C11: a successful step() that moves left with the head on cell 0 makes the
\* tape one cell longer, leaves the head on cell 0, which is a new blank
\* cell, and moves every previous cell, the written one included, one index
\* to the right; one that moves right with the head on the last cell makes
\* the tape one cell longer and leaves the head on the new last cell, which
\* is blank; every other successful step leaves the length of the tape as
\* it was.
C11_TapeGrowth ==
    [][nexecuted_steps' = nexecuted_steps + 1 =>
        LET old == tape.list
            new == tape'.list
            sym == tm.trans_function[<<cur_state, old[head + 1]>>][2]
            mv == tm.trans_function[<<cur_state, old[head + 1]>>][3]
        IN  IF mv = MOVE_LEFT /\ head = 0
                THEN /\ Len(new) = Len(old) + 1
                     /\ head' = 0
                     /\ new[1] = tm.blank
                     /\ new[2] = sym
                     /\ \A k \in 2 .. Len(old) : new[k + 1] = old[k]
            ELSE IF mv = MOVE_RIGHT /\ head = Len(old) - 1
                THEN /\ Len(new) = Len(old) + 1
                     /\ head' = Len(new) - 1
                     /\ new[Len(new)] = tm.blank
                     /\ \A k \in 1 .. Len(old) :
                            new[k] = IF k = head + 1 THEN sym ELSE old[k]
            ELSE Len(new) = Len(old)]_vars

\* A step has moved left on cell 0 of the tape <<0, 1>>, and has written 1
C11_Witness ==
    /\ call.op = "step"
    /\ call.exc = "none"
    /\ head = 0
    /\ tape.list = <<"#", "1", "1">>

\* C12: a successful step() with the observers o1..on attached in that order
\* delivers onStepStart to o1..on, then onStepEnd to o1..on, then, if and
\* only if the index of the head has changed, onHeadMoved(new head, old
\* head) to o1..on; a step that does not move, or that moves left on cell
\* 0, delivers no onHeadMoved.
C12_NotificationOrder ==
    [][nexecuted_steps' = nexecuted_steps + 1 =>
        LET n == Len(observers)
            expected ==
                [k \in 1 .. (IF head' /= head THEN 3 * n ELSE 2 * n) |->
                    IF k <= n THEN <<observers[k], "onStepStart">>
                    ELSE IF k <= 2 * n THEN <<observers[k - n], "onStepEnd">>
                    ELSE <<observers[k - 2 * n], "onHeadMoved">>]
            delivered == [k \in 1 .. Len(notes') |-> <<notes'[k].obs, notes'[k].ev>>]
        IN  /\ delivered = expected
            /\ \A k \in 1 .. Len(notes') :
                    notes'[k].ev = "onHeadMoved" => notes'[k].args = <<head', head>>]_vars

\* C13: the arguments of onStepStart are the state and the symbol of the
\* transition that step() has looked up: the state the machine enters and
\* the symbol it writes.
C13_StepStartPostLookup ==
    [][nexecuted_steps' = nexecuted_steps + 1 =>
        \A k \in 1 .. Len(notes') :
            notes'[k].ev = "onStepStart" =>
                notes'[k].args =
                    <<tm.trans_function[<<cur_state, tape.list[head + 1]>>][1],
                      tm.trans_function[<<cur_state, tape.list[head + 1]>>][2]>>]_vars

\* C16: setTape with a symbol that is not in the tape alphabet raises
\* InvalidSymbolException, leaves the tape, the head, the current state and
\* the counter of steps as they were, and delivers no onTapeChanged.
C16_InvalidSymbolUnchanged ==
    [][(call'.op = "setTape" /\ \E k \in 1 .. Len(call'.word) :
                                    call'.word[k] \notin tm.tape_alphabet) =>
        /\ call'.exc = "InvalidSymbolException"
        /\ UNCHANGED <<tape, head, cur_state, nexecuted_steps>>
        /\ notes' = <<>>]_vars

\* setTape(<<1, 3>>) has failed on a machine with two observers that has a
\* tape, has made a step and has its head on cell 1
C16_Witness ==
    /\ call.op = "setTape"
    /\ call.word = <<"1", "3">>
    /\ call.exc = "InvalidSymbolException"
    /\ Len(observers) = 2
    /\ tape.set
    /\ head = 1
    /\ nexecuted_steps > 0

\* C17: after a successful setTape(seq, h): for h < 0 the tape is -h blanks
\* followed by seq, and the head is 0; for 0 <= h < len(seq) the tape is seq
\* and the head is h; for h >= len(seq) the tape is seq followed by blanks
\* only, it has a cell at index h, which is blank, and the head is h.
C17_SetTapeLayout ==
    (call.op = "setTape" /\ call.exc = "none") =>
        LET seq == call.word
            h == call.head_pos
        IN  IF h < 0
                THEN /\ tape.list = [k \in 1 .. (0 - h) |-> tm.blank] \o seq
                     /\ head = 0
            ELSE IF h < Len(seq)
                THEN /\ tape.list = seq
                     /\ head = h
            ELSE /\ head = h
                 /\ Len(tape.list) > h
                 /\ tape.list[h + 1] = tm.blank
                 /\ SubSeq(tape.list, 1, Len(seq)) = seq
                 /\ \A k \in Len(seq) + 1 .. Len(tape.list) : tape.list[k] = tm.blank

\* The invariants of the data of a machine, but for the one of the halt state
OtherData(m) ==
    /\ m.in_alphabet \subseteq m.tape_alphabet
    /\ m.blank \in m.tape_alphabet
    /\ m.istate \in m.states
    /\ m.fstates \subseteq m.states
    /\ \A k \in DOMAIN m.trans_function :
        /\ k[1] \in m.states
        /\ m.trans_function[k][1] \in m.states
        /\ k[2] \in m.tape_alphabet
        /\ m.trans_function[k][2] \in m.tape_alphabet
        /\ m.trans_function[k][3] \in {MOVE_LEFT, MOVE_RIGHT, NON_MOVEMENT}

\* The invariants of the data of a machine
ValidData(m) == m.hstate \in m.states /\ OtherData(m)

\* C14: the construction of a machine whose halt state is not among its
\* states fails, also when the other invariants of the data hold.
C14_HaltStateChecked ==
    (/\ bcall.op = "TuringMachine"
     /\ bcall.args.hstate \notin bcall.args.states
     /\ OtherData(bcall.args)) => bcall.exc /= "none"

\* C15: the construction of a machine fails when a transition has a source
\* or target state that is not among the states, or a read or written
\* symbol that is not in the tape alphabet, whatever the state or symbol is;
\* it succeeds when all the invariants of the data hold.
C15_TransitionsChecked ==
    bcall.op = "TuringMachine" =>
        /\ (\E k \in DOMAIN bcall.args.trans_function :
                \/ k[1] \notin bcall.args.states
                \/ bcall.args.trans_function[k][1] \notin bcall.args.states
                \/ k[2] \notin bcall.args.tape_alphabet
                \/ bcall.args.trans_function[k][2] \notin bcall.args.tape_alphabet)
            => bcall.exc /= "none"
        /\ ValidData(bcall.args) => (bcall.exc = "none" /\ tm = bcall.args)

\* C19: create() raises its own exception exactly when the initial state,
\* the blank symbol or the halt state of the builder is unset, and then it
\* changes neither the builder nor a machine; when all three are set it
\* calls the constructor with the data of the builder and with the tape
\* alphabet in_alphabet \cup {blank}, and the machine it returns has these
\* data, is in the initial state, has no tape, has its head on 0 and has
\* counted no step.  create() never changes the builder.
C19_Create ==
    [][bcall'.op = "create" =>
        LET completion == {"It is necessary to specify an initial state",
                           "It is necessary to specify the blank symbol",
                           "It is necessary to specify the halt state"}
        IN  /\ builder' = builder
            /\ IF Unset \in {builder.istate, builder.blank, builder.haltstate}
                THEN /\ bcall'.exc \in completion
                     /\ UNCHANGED <<tm, tape, head, cur_state, nexecuted_steps>>
                ELSE /\ bcall'.exc \notin completion
                     /\ bcall'.args =
                            [states |-> builder.states,
                             in_alphabet |-> builder.in_alphabet,
                             tape_alphabet |-> builder.in_alphabet \cup {builder.blank},
                             trans_function |-> builder.trans_function,
                             istate |-> builder.istate,
                             fstates |-> builder.fstates,
                             hstate |-> builder.haltstate,
                             blank |-> builder.blank]
                     /\ bcall'.exc = "none" =>
                            /\ tm' = bcall'.args
                            /\ cur_state' = builder.istate
                            /\ tape' = [set |-> FALSE, list |-> <<>>]
                            /\ head' = 0
                            /\ nexecuted_steps' = 0]_vars

\* create() has returned a machine with a transition, whose blank symbol is
\* in its tape alphabet only
C19_Witness ==
    /\ bcall.op = "create"
    /\ bcall.exc = "none"
    /\ DOMAIN tm.trans_function /= {}
    /\ tm.blank \in tm.tape_alphabet \ tm.in_alphabet
    /\ cur_state = "p"
    /\ ~tape.set

\* the previous halt state); nothing else of the builder changes.
C21_SetHaltState ==
    [][(bcall'.op = "setHaltState" /\ bcall'.exc = "none") =>
        LET h == bcall'.trans[1]
            prev == builder.haltstate
            used == \E k \in DOMAIN builder.trans_function :
                        k[1] = prev \/ builder.trans_function[k][1] = prev
        IN  /\ builder'.haltstate = h
            /\ builder'.states =
                    (IF prev /= Unset /\ ~used
                        THEN builder.states \ {prev} ELSE builder.states) \cup {h}
            /\ builder'.in_alphabet = builder.in_alphabet
            /\ builder'.trans_function = builder.trans_function
            /\ builder'.istate = builder.istate
            /\ builder'.fstates = builder.fstates
            /\ builder'.blank = builder.blank]_vars

\* setHaltState("G") has replaced the halt state H: H is still a state,
\* because a transition enters it, and G is one now
C21_Witness ==
    /\ bcall.op = "setHaltState"
    /\ bcall.trans = <<"G">>
    /\ builder.haltstate = "G"
    /\ {"H", "G"} \subseteq builder.states
    /\ builder.fstates = {}
    /\ \E k \in DOMAIN builder.trans_function : builder.trans_function[k][1] = "H"

\* C25: a step() that raises UnknownTransitionException, HaltStateException
\* or UnsetTapeException delivers no notification to the observers.
C25_FailedStepSilent ==
    (pc = "idle" /\ call.op = "step" /\ call.exc /= "none") => notes = <<>>

\* C26: the counter of executed steps is set to 0 by
\* resetExecutedStepsCounter, grows by exactly 1 with each successful step,
\* called directly or by the loop of run(), and keeps its value in every
\* other case (a failing step, setTape, setAtInitialState, the calls and
\* returns of run and isWordAccepted); when isWordAccepted has returned, the
\* steps it has made are in the counter although tape, state and head are
\* as before the call.
C26_StepCounter ==
    /\ [](AcceptReturned =>
            /\ nexecuted_steps = call.pre_count + call.done
            /\ tape = call.pre_tape /\ cur_state = call.pre_state /\ head = call.pre_head)
    /\ [][nexecuted_steps' =
            IF call'.op = "resetExecutedStepsCounter" THEN 0
            ELSE IF \/ pc = "idle" /\ call'.op = "step" /\ call'.exc = "none"
                    \/ pc = "run" /\ call'.done = call.done + 1
                THEN nexecuted_steps + 1
            ELSE nexecuted_steps]_vars

\* isWordAccepted has returned after two steps on a machine that had made
\* a step before
C26_Witness ==
    /\ AcceptReturned
    /\ call.done = 2
    /\ call.pre_count = 1
    /\ nexecuted_steps = 3
    /\ tape = call.pre_tape

\* C27: a successful setTape leaves the current state, also the halt state,
\* and the counter of steps as they were, and delivers to each observer, in
\* the order of attachment, one onTapeChanged with the head_pos the caller
\* passed, not the head of the machine.
C27_SetTapeFrame ==
    [][(call'.op = "setTape" /\ call'.exc = "none") =>
        /\ cur_state' = cur_state
        /\ nexecuted_steps' = nexecuted_steps
        /\ tm' = tm
        /\ observers' = observers
        /\ notes' = [k \in 1 .. Len(observers) |->
                        [obs |-> observers[k], ev |-> "onTapeChanged",
                         args |-> <<call'.head_pos>>]]]_vars

\* setTape(<<1>>, -1) has succeeded on a machine with two observers that is
\* in its halt state after two steps
C27_Witness ==
    /\ call.op = "setTape"
    /\ call.exc = "none"
    /\ call.head_pos = 0 - 1
    /\ head = 0
    /\ tape.list = <<"#", "1">>
    /\ cur_state = tm.hstate
    /\ nexecuted_steps = 2
    /\ Len(notes) = 2

\* C29: run() without a bound returns when execution from the configuration
\* of the call reaches the halt state or a pair (state, symbol) without
\* transition, and only then: it returns 0 or 2; when it returns 0 the
\* machine is in the halt state, which no earlier step had entered; when it
\* returns 2 the machine is not in the halt state, the pair under the head
\* has no transition and no step has entered the halt state; in both cases
\* the configuration is the one the successful steps of the call have left.
C29_UnboundedRun ==
    /\ []((RunReturned /\ call.max_steps = None) =>
            /\ call.end_cond \in {0, 2}
            /\ config = StepN(PreConfig, call.done)
            /\ call.end_cond = 0 =>
                    /\ cur_state = tm.hstate
                    /\ call.done > 0 => StepsWithoutHalt(PreConfig, call.done - 1)
            /\ call.end_cond = 2 =>
                    /\ cur_state /= tm.hstate
                    /\ StepsWithoutHalt(PreConfig, call.done)
                    /\ tape.set /\ head < Len(tape.list)
                    /\ <<cur_state, tape.list[head + 1]>> \notin DOMAIN tm.trans_function)
    /\ ((pc = "run" /\ call.op = "run" /\ call.max_steps = None
            /\ EndsWithin(config, nexecuted_steps))
          ~> (RunReturned /\ call.end_cond \in {0, 2}))

\* run() without a bound has returned 2 in state b after one step
C29_Witness ==
    /\ RunReturned
    /\ call.max_steps = None
    /\ call.end_cond = 2
    /\ call.done = 1
    /\ cur_state = "b"
    /\ tape.list = <<"1", "#">>

\* C22: a second INITIAL, BLANK or HALT line fails with the error of a
\* directive given twice and leaves the builder as it was; a FINAL line never
\* fails, whatever final states there are, and its state is a final state
\* afterwards.
C22_DuplicateDirectives ==
    [][\A data \in PLines : ParsesLine(data) =>
        /\ (InitialDirective(data).ok /\ hasInitialState) =>
                (bcall'.exc = "Initial state can only be defined once" /\ builder' = builder)
        /\ (match(blank_symbol_re, data).ok /\ hasBlankSymbol) =>
                (bcall'.exc = "Blank symbol can only be defined once" /\ builder' = builder)
        /\ (HaltDirective(data).ok /\ hasHaltState) =>
                (bcall'.exc = "Halt state can only be defined once" /\ builder' = builder)
        /\ FinalDirective(data).ok =>
                /\ bcall'.exc = "none"
                /\ builder'.fstates = builder.fstates \cup {Text(FinalDirective(data).group[1])}
                /\ builder'.istate = builder.istate
                /\ builder'.blank = builder.blank
                /\ builder'.haltstate = builder.haltstate]_vars

\* C30: an INITIAL line with a state of one or more word characters, given
\* to a parser without initial state, is accepted and makes that state the
\* initial state, as the HALT line with the same state is accepted.
C30_InitialTokens ==
    [][\A data \in PLines : (ParsesLine(data) /\ InitialDirective(data).ok /\ ~hasInitialState) =>
        /\ bcall'.exc = "none"
        /\ builder'.istate = Text(InitialDirective(data).group[1])]_vars

\* C24: when parseString has raised, the number in its message is the
\* number of the line at which the loop stopped, counting every line of the
\* text from 1; that line has data and is refused by the builder it met;
\* the builder is the one of the call with the lines before it applied and
\* nothing else, and the call does nothing more.  When parseString has
\* returned, every line is applied.  The lines are those of the text.  A
\* blank line or a comment line leaves the builder as it is.
C24_BulkParse ==
    /\ [](ParseReturned =>
            /\ \A j \in 1 .. Len(bcall.lines) : bcall.lines[j] \in TLines
            /\ bcall.exc = "none" =>
                    (bcall.line = Len(bcall.lines)
                     /\ Applied(bcall.pre, bcall.lines, Len(bcall.lines), builder))
            /\ bcall.exc /= "none" =>
                    /\ bcall.lineno \in 1 .. Len(bcall.lines)
                    /\ bcall.lineno = bcall.line
                    /\ bcall.lines[bcall.lineno] /= <<>>
                    /\ parseLine_raises(bcall.lines[bcall.lineno]) = bcall.exc
                    /\ Applied(bcall.pre, bcall.lines, bcall.lineno - 1, builder))
    /\ [][/\ (ParseReturned /\ bcall.exc /= "none") =>
                ~(bcall'.op = "parseString" /\ bcall'.line = bcall.line + 1)
          /\ \A data \in TLines :
                (LooksAt(data) /\ (BlankLine(data) \/ parseLine_kind(data) = "comment")) =>
                    builder' = builder]_vars

\* C24 witness: parseString, called on a builder that is not new, has raised
\* at line 2 after a line without data.
C24_Witness ==
    /\ ParseReturned
    /\ bcall.exc /= "none"
    /\ bcall.lineno = 2
    /\ bcall.lines[1] = <<>>
    /\ bcall.pre /= NewBuilder

\* C23: create() after the calls of the builder's test gives the incrementer,
\* and create() after parseString of the parser's text gives the incrementer
\* with every state and symbol as text; a run() of either machine, from a
\* tape and state written as that machine writes them, ends as the run of
\* the incrementer ends and leaves the incrementer's tape, head and state,
\* written as that machine writes them.
C23_RoundTrip ==
    /\ [][(tm = NoMachine /\ tm' /= NoMachine) =>
            /\ tm' = bcall'.args
            /\ bcall.op = "addFinalState" => tm' = Incrementer
            /\ (bcall.op = "parseString" /\ bcall.exc = "none") => tm' = StrMachine(Incrementer)]_vars
    /\ [](\A text \in BOOLEAN :
            (/\ RunReturned
             /\ call.max_steps = None
             /\ call.pre_tape.set
             /\ call.pre_head < Len(call.pre_tape.list)
             /\ tm = (IF text THEN StrMachine(Incrementer) ELSE Incrementer)) =>
                LET r == RefRun(Incrementer,
                                IF text THEN unstrs(call.pre_tape.list) ELSE call.pre_tape.list,
                                call.pre_head,
                                IF text THEN unstr(call.pre_state) ELSE call.pre_state,
                                ScenCount + 1)
                IN  /\ call.end_cond = r.end
                    /\ tape.list = (IF text THEN strs(r.list) ELSE r.list)
                    /\ head = r.head
                    /\ cur_state = (IF text THEN str(r.state) ELSE r.state))

\* C23 witness: the machine of the parser's text has run from its initial
\* state on the text of the tape 1 0 1 1 and has halted after some steps.
C23_Witness ==
    /\ RunReturned
    /\ call.max_steps = None
    /\ tm = StrMachine(Incrementer)
    /\ call.pre_tape.list = <<"'1'", "'0'", "'1'", "'1'">>
    /\ call.pre_head = 0
    /\ call.pre_state = "'1'"
    /\ call.end_cond = 0
    /\ call.done = 5
    /\ tape.list = <<"'0'", "'1'", "'1'", "'1'">>

\* C28: the data of a created machine (states, alphabets, transition table,
\* initial, final and halt states, blank symbol) are the same after every
\* step: after step, run, setTape, setAtInitialState and isWordAccepted, and
\* after addTransition, setHaltState and clean of the builder that created
\* the machine.
C28_MachineDataFixed == [][tm /= NoMachine => tm' = tm]_vars

\* C28 witness: the builder's test has created the incrementer, which has
\* run, and the builder has been given one more transition since: the table
\* of the builder has it and the table of the machine has not.
C28_Witness ==
    /\ tm = Incrementer
    /\ RunReturned
    /\ nexecuted_steps > 0
    /\ bcall.op = "addTransition"
    /\ bcall.exc = "none"
    /\ <<"1", "#">> \in DOMAIN builder.trans_function
    /\ <<"1", "#">> \notin DOMAIN tm.trans_function

\* C31: whenever the tape is set it has a cell, the head is on one of its
\* cells, and a step() that raised raised HaltStateException or
\* UnknownTransitionException.
C31_HeadOnTape ==
    tape.set =>
        /\ Len(tape.list) > 0
        /\ 0 <= head
        /\ head < Len(tape.list)
        /\ (call.op = "step" /\ call.exc /= "none") =>
                call.exc \in {"HaltStateException", "UnknownTransitionException"}

\* C32: the answer of isWordAccepted(word, max_steps) is the answer the
\* machine gives in its initial state, whatever state, tape and head it has
\* when it is called.
C32_AnswerOfWordOnly ==
    (AcceptReturned /\ AnswerAtStart(call.word, call.max_steps, MaxCount + 1) /= "?") =>
        call.accepted = AnswerAtStart(call.word, call.max_steps, MaxCount + 1)


\* C33: whenever the initial state, the blank symbol and the halt state of
\* the builder are set, its data satisfy the invariants of a machine (the
\* initial, final and halt states and the states of the transitions are
\* among its states, the symbols of the transitions are in the input
\* alphabet or the blank symbol) and the constructor accepts the arguments
\* create() passes.
C33_BuilderDataValid ==
    (hasInitialState /\ hasBlankSymbol /\ hasHaltState) =>
        /\ builder.istate \in builder.states
        /\ builder.fstates \subseteq builder.states
        /\ builder.haltstate \in builder.states
        /\ \A k \in DOMAIN builder.trans_function :
            /\ {k[1], builder.trans_function[k][1]} \subseteq builder.states
            /\ {k[2], builder.trans_function[k][2]}
                    \subseteq builder.in_alphabet \cup {builder.blank}
        /\ construct_raises(create_args) = {"none"}


\* C34: the machine simulates the ideal machine on a tape without ends.
\* setTape(seq, h) with 0 <= h < len(seq) shows the ideal tape that holds
\* seq with the head on cell h; every successful step shows what one step
\* of the ideal machine makes of what was shown before it; and after every
\* step of a run the machine shows what the ideal machine shows after as
\* many steps from the configuration the run started in.
C34_IdealTape ==
    [][/\ (/\ pc = "idle"
            /\ call'.op = "setTape"
            /\ call'.exc = "none"
            /\ 0 <= call'.head_pos
            /\ call'.head_pos < Len(call'.word))
            => View(config') = IdealInput(call'.word, call'.head_pos, cur_state)
       /\ (\/ pc = "idle" /\ call'.op = "step" /\ call'.exc = "none"
           \/ pc = "run" /\ pc' = "run")
            => View(config') = IdealStep(View(config))
       /\ (pc = "run" /\ pc' = "run")
            => View(config') =
                    IdealRun(IF call.op = "run" THEN View(PreConfig)
                                ELSE IdealInput(call.word, 0, call.pre_state),
                             call'.done)]_vars

\* A run started on the tape <<0>> has taken two steps: the first has moved
\* left on cell 0 and the second has moved right from there, and the list
\* has grown at its left end
C34_Witness ==
    /\ pc = "run"
    /\ call.op = "run"
    /\ call.pre_tape.list = <<"0">>
    /\ call.pre_state = "a"
    /\ call.done = 2
    /\ tape.list = <<"#", "1">>
    /\ head = 1
    /\ cur_state = "c"


\* C35: once a machine has been constructed, whatever calls of setTape,
\* step, run, setAtInitialState and isWordAccepted have been made, its
\* current state is one of its states and every cell of its tape holds a
\* symbol of its tape alphabet.
C35_StateAndCellsValid ==
    tm /= NoMachine =>
        /\ cur_state \in tm.states
        /\ tape.set => \A k \in 1 .. Len(tape.list) : tape.list[k] \in tm.tape_alphabet

============================================================================
